---------------------------- MODULE Spec2Model ----------------------------
(***************************************************************************)
(* A model of the persona benchmark: the scoring function of metrics.py,   *)
(* the generation adapter of model_interface.py and the evaluation loop of *)
(* main.py.                                                                *)
(*                                                                         *)
(* Text is modelled at character level: a Python str is a sequence of      *)
(* one-character strings.  A Hangul syllable is one character, written     *)
(* "h_" followed by its romanisation, and the backtick is written "GRAVE"  *)
(* (a TLA+ string cannot hold either).  JSON text is                       *)
(* produced by JsonDumps and read back by JsonLoads, a parser of the JSON  *)
(* fragment the model's texts are written in.  A Python value is a record  *)
(* [t, k, s, l]: its type tag, the key it is stored under when it is a     *)
(* dict entry, its characters (str) or its repr (number), and its children *)
(* (list elements, dict entries).                                          *)
(*                                                                         *)
(* Scores are exact rationals <<n, d>> in lowest terms, where the code     *)
(* uses binary floating point.                                             *)
(***************************************************************************)
EXTENDS Integers, Sequences, FiniteSets, TLC

----------------------------------------------------------------------------
(* Sequences and strings *)

Min(a, b) == IF a <= b THEN a ELSE b

Max(a, b) == IF a >= b THEN a ELSE b

\* the concatenation of the sequences of ss (by halves: the evaluation stays shallow)
RECURSIVE Flatten(_)
Flatten(ss) ==
  IF ss = <<>> THEN <<>>
  ELSE IF Len(ss) = 1 THEN ss[1]
  ELSE LET h == Len(ss) \div 2
       IN Flatten(SubSeq(ss, 1, h)) \o Flatten(SubSeq(ss, h + 1, Len(ss)))

\* Python: sep.join(ss)
JoinWith(sep, ss) ==
  Flatten([i \in 1..Len(ss) |-> IF i = 1 THEN ss[i] ELSE sep \o ss[i]])

\* Python: a in b, both str
IsSubstr(a, b) ==
  \E i \in 0..(Len(b) - Len(a)) : SubSeq(b, i + 1, i + Len(a)) = a

\* the characters Python's str.split() and str.strip() treat as whitespace
Whitespace == {" ", "\n", "\t", "\r"}

\* Python: s.strip()
Strip(s) ==
  LET keep == {i \in 1..Len(s) : s[i] \notin Whitespace}
  IN IF keep = {} THEN <<>>
     ELSE LET lo == CHOOSE i \in keep : \A j \in keep : i <= j
              hi == CHOOSE i \in keep : \A j \in keep : i >= j
          IN SubSeq(s, lo, hi)

\* Python: s.split(), the maximal runs of characters that are not whitespace
RECURSIVE SplitFrom(_, _)
SplitFrom(s, p) ==
  LET rest == {i \in p..Len(s) : s[i] \notin Whitespace}
  IN IF rest = {} THEN <<>>
     ELSE LET lo == CHOOSE i \in rest : \A j \in rest : i <= j
              ends == {i \in lo..Len(s) : i = Len(s) \/ s[i + 1] \in Whitespace}
              hi == CHOOSE i \in ends : \A j \in ends : i <= j
          IN <<SubSeq(s, lo, hi)>> \o SplitFrom(s, hi + 1)

Split(s) == SplitFrom(s, 1)

----------------------------------------------------------------------------
(* Python values *)

PyNone == [t |-> "null", k |-> <<>>, s |-> <<>>, l |-> <<>>]

PyStrVal(s) == [t |-> "str", k |-> <<>>, s |-> s, l |-> <<>>]

\* a number (int, float or bool), kept by its repr
PyNum(r) == [t |-> "num", k |-> <<>>, s |-> r, l |-> <<>>]

PyList(l) == [t |-> "list", k |-> <<>>, s |-> <<>>, l |-> l]

\* a dict of entries, each a value whose k is its key
PyDict(l) == [t |-> "dict", k |-> <<>>, s |-> <<>>, l |-> l]

Entry(key, v) == [v EXCEPT !.k = key]

StrList(ss) == PyList([i \in 1..Len(ss) |-> PyStrVal(ss[i])])

\* Python: key in d, for a dict d
HasKey(d, key) == \E i \in 1..Len(d.l) : d.l[i].k = key

\* Python: d[key], for a dict d holding key
GetKey(d, key) ==
  LET i == CHOOSE j \in 1..Len(d.l) : d.l[j].k = key
  IN [d.l[i] EXCEPT !.k = <<>>]

\* Python: d.get(key, default)
DictGet(d, key, default) == IF HasKey(d, key) THEN GetKey(d, key) ELSE default

\* Python: repr of a str
ReprStr(s) ==
  LET hasS == \E i \in 1..Len(s) : s[i] = "'"
      hasD == \E i \in 1..Len(s) : s[i] = "\""
      q == IF hasS /\ ~hasD THEN "\"" ELSE "'"
      esc(c) == IF c = "\\" THEN <<"\\", "\\">>
                ELSE IF c = q THEN <<"\\", c>>
                ELSE IF c = "\n" THEN <<"\\", "n">>
                ELSE IF c = "\t" THEN <<"\\", "t">>
                ELSE IF c = "\r" THEN <<"\\", "r">>
                ELSE <<c>>
  IN <<q>> \o Flatten([i \in 1..Len(s) |-> esc(s[i])]) \o <<q>>

\* Python: repr(v)
RECURSIVE PyRepr(_)
PyRepr(v) ==
  CASE v.t = "null" -> <<"N", "o", "n", "e">>
    [] v.t = "num" -> v.s
    [] v.t = "str" -> ReprStr(v.s)
    [] v.t = "list" ->
         <<"[">> \o JoinWith(<<",", " ">>, [i \in 1..Len(v.l) |-> PyRepr([v.l[i] EXCEPT !.k = <<>>])]) \o <<"]">>
    [] v.t = "dict" ->
         <<"{">> \o JoinWith(<<",", " ">>,
                      [i \in 1..Len(v.l) |->
                         ReprStr(v.l[i].k) \o <<":", " ">> \o PyRepr([v.l[i] EXCEPT !.k = <<>>])])
         \o <<"}">>

\* Python: str(v)
PyStr(v) == IF v.t = "str" THEN v.s ELSE PyRepr(v)

\* Python: bool(v)
Truthy(v) ==
  CASE v.t = "null" -> FALSE
    [] v.t = "num" -> v.s \notin {<<"0">>, <<"F", "a", "l", "s", "e">>}
    [] v.t = "str" -> v.s # <<>>
    [] OTHER -> v.l # <<>>

\* Python: isinstance(v, list)
IsList(v) == v.t = "list"

\* iter(v) and len(v) raise TypeError for None and numbers
NotIterable(v) == v.t \in {"null", "num"}

\* Python: list(iter(v)): the elements of a list, the characters of a str, the
\* keys of a dict
Elements(v) ==
  CASE v.t = "list" -> v.l
    [] v.t = "str" -> [i \in 1..Len(v.s) |-> PyStrVal(<<v.s[i]>>)]
    [] v.t = "dict" -> [i \in 1..Len(v.l) |-> PyStrVal(v.l[i].k)]
    [] OTHER -> <<>>

\* Python: len(v), for v a str, list or dict
PyLen(v) == IF v.t = "str" THEN Len(v.s) ELSE Len(v.l)

\* Python: a in v for a str a, as "T", "F" or "E" (TypeError)
PyIn(a, v) ==
  CASE v.t = "str" -> IF IsSubstr(a, v.s) THEN "T" ELSE "F"
    [] v.t = "list" ->
         IF \E i \in 1..Len(v.l) : v.l[i].t = "str" /\ v.l[i].s = a THEN "T" ELSE "F"
    [] v.t = "dict" -> IF HasKey(v, a) THEN "T" ELSE "F"
    [] OTHER -> "E"

\* Python: x == y for the values a set holds
PyEq(x, y) ==
  LET num(r) == IF r = <<"T", "r", "u", "e">> THEN <<"1">>
                ELSE IF r = <<"F", "a", "l", "s", "e">> THEN <<"0">>
                ELSE r
  IN /\ x.t = y.t
     /\ x.t \in {"null", "num", "str"}
     /\ IF x.t = "num" THEN num(x.s) = num(y.s) ELSE x.s = y.s

\* hash(v) raises TypeError for a list and a dict
Unhashable(v) == v.t \in {"list", "dict"}

\* Python: set(v) raises TypeError
SetRaises(v) ==
  NotIterable(v) \/ \E i \in 1..Len(Elements(v)) : Unhashable(Elements(v)[i])

\* Python: a or b, and the first decisive value of any(...) and all(...), where an
\* operand is "T", "F" or "E" (it raised)
TriOr(a, b) == IF a = "F" THEN b ELSE a

TriAnd(a, b) == IF a = "T" THEN b ELSE a

RECURSIVE AnyTri(_)
AnyTri(xs) == IF xs = <<>> THEN "F" ELSE TriOr(Head(xs), AnyTri(Tail(xs)))

RECURSIVE AllTri(_)
AllTri(xs) == IF xs = <<>> THEN "T" ELSE TriAnd(Head(xs), AllTri(Tail(xs)))

----------------------------------------------------------------------------
(* JSON text: json.dumps and json.loads *)

\* the Hangul syllables of the keyword lists, each one character
Hangul ==
  {"h_wae", "h_nya", "h_ha", "h_myeon", "h_tta", "h_ra", "h_seo", "h_go", "h_ryeo",
   "h_yeo", "h_ttae", "h_mun", "h_e", "h_bun", "h_ryu", "h_je", "h_yak", "h_seon",
   "h_ho", "h_dang", "h_sin", "h_eun", "h_to", "h_ron", "h_cham", "h_yeok", "h_hal",
   "h_jeol", "h_dae", "h_an", "h_doem", "h_mot", "h_meok", "h_hyeop", "h_ui", "h_ga",
   "h_neung", "h_jo", "h_yul", "h_bul", "h_geum", "h_ji", "h_dwae"}

\* json.dumps of a str: the escapes of the quote, the backslash and the control
\* characters, and with ensure_ascii a six-character \uXXXX escape per Hangul syllable
JsonDumpsStr(s, ensure_ascii) ==
  LET esc(c) == IF c = "\"" THEN <<"\\", "\"">>
                ELSE IF c = "\\" THEN <<"\\", "\\">>
                ELSE IF c = "\n" THEN <<"\\", "n">>
                ELSE IF c = "\t" THEN <<"\\", "t">>
                ELSE IF c = "\r" THEN <<"\\", "r">>
                ELSE IF ensure_ascii /\ c \in Hangul THEN <<"\\", "u", "X", "X", "X", "X">>
                ELSE <<c>>
  IN <<"\"">> \o Flatten([i \in 1..Len(s) |-> esc(s[i])]) \o <<"\"">>

\* Python: json.dumps(v, ensure_ascii=...), for v of None, int, str, list and dict
RECURSIVE JsonDumps(_, _)
JsonDumps(v, ensure_ascii) ==
  CASE v.t = "null" -> <<"n", "u", "l", "l">>
    [] v.t = "num" -> v.s
    [] v.t = "str" -> JsonDumpsStr(v.s, ensure_ascii)
    [] v.t = "list" ->
         <<"[">> \o JoinWith(<<",", " ">>,
                      [i \in 1..Len(v.l) |-> JsonDumps([v.l[i] EXCEPT !.k = <<>>], ensure_ascii)])
         \o <<"]">>
    [] v.t = "dict" ->
         <<"{">> \o JoinWith(<<",", " ">>,
                      [i \in 1..Len(v.l) |->
                         JsonDumpsStr(v.l[i].k, ensure_ascii) \o <<":", " ">>
                         \o JsonDumps([v.l[i] EXCEPT !.k = <<>>], ensure_ascii)])
         \o <<"}">>

Digits == {"0", "1", "2", "3", "4", "5", "6", "7", "8", "9"}

\* the first position from p on that holds no JSON whitespace (Len(t) + 1 if none)
SkipWs(t, p) ==
  CHOOSE q \in p..(Len(t) + 1) :
    /\ q = Len(t) + 1 \/ t[q] \notin Whitespace
    /\ \A r \in p..(q - 1) : t[r] \in Whitespace

\* a parse result: st is "ok", "bad" (json.JSONDecodeError) or "unsup" (JSON the
\* parser does not read: floats, negative numbers, NaN, Infinity, \u escapes)
POk(v, p) == [st |-> "ok", v |-> v, p |-> p]

PBad == [st |-> "bad", v |-> PyNone, p |-> 0]

PUnsup == [st |-> "unsup", v |-> PyNone, p |-> 0]

\* position q of t holds a backslash that escapes the character after it: it ends
\* an odd run of backslashes
EscapesNext(t, q) ==
  /\ t[q] = "\\"
  /\ LET run == {m \in 1..q : \A r \in m..q : t[r] = "\\"}
     IN Cardinality(run) % 2 = 1

\* the JSON string whose opening quote is at p - 1: its characters run to the first
\* quote no backslash escapes
ScanStr(t, p) ==
  LET closes == {q \in p..Len(t) : t[q] = "\"" /\ (q = p \/ ~EscapesNext(t, q - 1))}
  IN IF closes = {} THEN PBad
     ELSE
       LET close == CHOOSE q \in closes : \A r \in closes : q <= r
           escapes == {q \in p..(close - 1) : EscapesNext(t, q)}
           escaped == {q + 1 : q \in escapes}
           kept == (p..(close - 1)) \ escapes
           at(n) == CHOOSE q \in kept : Cardinality({r \in kept : r <= q}) = n
           char(q) == IF q \notin escaped THEN t[q]
                      ELSE IF t[q] = "n" THEN "\n"
                      ELSE IF t[q] = "t" THEN "\t"
                      ELSE IF t[q] = "r" THEN "\r"
                      ELSE t[q]
       IN IF escapes = {}
          THEN IF \E q \in kept : t[q] \in {"\n", "\t", "\r"} THEN PBad
               ELSE POk(PyStrVal(SubSeq(t, p, close - 1)), close + 1)
          ELSE IF \E q \in escaped : t[q] \in {"u", "b", "f"} THEN PUnsup
          ELSE IF \E q \in escaped : t[q] \notin {"\"", "\\", "/", "n", "t", "r"} THEN PBad
          ELSE IF \E q \in kept : t[q] \in {"\n", "\t", "\r"} /\ q \notin escaped THEN PBad
          ELSE POk(PyStrVal([n \in 1..Cardinality(kept) |-> char(at(n))]), close + 1)

IsLiteral(t, p, w) == p + Len(w) - 1 <= Len(t) /\ SubSeq(t, p, p + Len(w) - 1) = w

\* a dict's entries with key set to v: a key already held keeps its place
PutEntry(es, key, v) ==
  IF \E i \in 1..Len(es) : es[i].k = key
  THEN [i \in 1..Len(es) |-> IF es[i].k = key THEN Entry(key, v) ELSE es[i]]
  ELSE Append(es, Entry(key, v))

RECURSIVE ParseValue(_, _)
RECURSIVE ParseElems(_, _, _)
RECURSIVE ParseMembers(_, _, _)

\* the JSON value that starts at position p of t
ParseValue(t, p) ==
  IF p > Len(t) THEN PBad
  ELSE IF t[p] = "\"" THEN ScanStr(t, p + 1)
  ELSE IF t[p] = "[" THEN
    LET q == SkipWs(t, p + 1)
    IN IF q <= Len(t) /\ t[q] = "]" THEN POk(PyList(<<>>), q + 1) ELSE ParseElems(t, q, <<>>)
  ELSE IF t[p] = "{" THEN
    LET q == SkipWs(t, p + 1)
    IN IF q <= Len(t) /\ t[q] = "}" THEN POk(PyDict(<<>>), q + 1) ELSE ParseMembers(t, q, <<>>)
  ELSE IF t[p] = "n" THEN
    IF IsLiteral(t, p, <<"n", "u", "l", "l">>) THEN POk(PyNone, p + 4) ELSE PBad
  ELSE IF t[p] = "t" THEN
    IF IsLiteral(t, p, <<"t", "r", "u", "e">>) THEN POk(PyNum(<<"T", "r", "u", "e">>), p + 4) ELSE PBad
  ELSE IF t[p] = "f" THEN
    IF IsLiteral(t, p, <<"f", "a", "l", "s", "e">>)
    THEN POk(PyNum(<<"F", "a", "l", "s", "e">>), p + 5) ELSE PBad
  ELSE IF t[p] \in Digits THEN
    LET ends == {q \in p..Len(t) : q = Len(t) \/ t[q + 1] \notin Digits}
        hi == IF t[p] = "0" THEN p ELSE CHOOSE q \in ends : \A r \in ends : q <= r
    IN IF hi < Len(t) /\ t[hi + 1] \in {".", "e", "E"} THEN PUnsup
       ELSE POk(PyNum(SubSeq(t, p, hi)), hi + 1)
  ELSE IF t[p] \in {"-", "N", "I"} THEN PUnsup
  ELSE PBad

\* the elements of a JSON array from p on, after acc
ParseElems(t, p, acc) ==
  LET r == ParseValue(t, p)
  IN IF r.st # "ok" THEN r
     ELSE LET q == SkipWs(t, r.p)
          IN IF q > Len(t) THEN PBad
             ELSE IF t[q] = "," THEN ParseElems(t, SkipWs(t, q + 1), Append(acc, r.v))
             ELSE IF t[q] = "]" THEN POk(PyList(Append(acc, r.v)), q + 1)
             ELSE PBad

\* the members of a JSON object from p on, after acc
ParseMembers(t, p, acc) ==
  IF p > Len(t) \/ t[p] # "\"" THEN PBad
  ELSE
    LET key == ScanStr(t, p + 1)
    IN IF key.st # "ok" THEN key
       ELSE LET c == SkipWs(t, key.p)
            IN IF c > Len(t) \/ t[c] # ":" THEN PBad
               ELSE LET r == ParseValue(t, SkipWs(t, c + 1))
                    IN IF r.st # "ok" THEN r
                       ELSE LET q == SkipWs(t, r.p)
                                es == PutEntry(acc, key.v.s, r.v)
                            IN IF q > Len(t) THEN PBad
                               ELSE IF t[q] = "," THEN ParseMembers(t, SkipWs(t, q + 1), es)
                               ELSE IF t[q] = "}" THEN POk(PyDict(es), q + 1)
                               ELSE PBad

\* Python: json.loads(t): st = "bad" stands for json.JSONDecodeError
JsonLoads(t) ==
  LET r == ParseValue(t, SkipWs(t, 1))
  IN IF r.st # "ok" THEN r
     ELSE IF SkipWs(t, r.p) = Len(t) + 1 THEN r
     ELSE PBad

----------------------------------------------------------------------------
(* Rational numbers <<n, d>>, d > 0, in lowest terms *)

RECURSIVE Gcd(_, _)
Gcd(a, b) == IF b = 0 THEN a ELSE Gcd(b, a % b)

Rat(n, d) ==
  LET g == Gcd(IF n < 0 THEN -n ELSE n, d)
  IN <<n \div g, d \div g>>

RatAdd(a, b) == Rat(a[1] * b[2] + b[1] * a[2], a[2] * b[2])

RatSub(a, b) == Rat(a[1] * b[2] - b[1] * a[2], a[2] * b[2])

RatLe(a, b) == a[1] * b[2] <= b[1] * a[2]

RatMin(a, b) == IF RatLe(a, b) THEN a ELSE b

RatMax(a, b) == IF RatLe(a, b) THEN b ELSE a

Zero == Rat(0, 1)

One == Rat(1, 1)

Half == Rat(1, 2)

----------------------------------------------------------------------------
(* metrics.py: calculate_persona_generation_metrics *)

\* a variant of InitialScores that seeds every field with 0.0
InitialScoresAllZero ==
  [json_schema_compliance |-> Zero,
   field_coverage |-> Zero,
   classification_accuracy |-> Zero,
   reasoning_depth |-> Zero,
   discussion_readiness |-> Zero,
   specificity |-> Zero,
   consistency |-> Zero,
   extra_text_parsing |-> Zero,
   overall_score |-> Zero]

\* the ScoreCard as line 9 to 19 seed it
InitialScores ==
  [json_schema_compliance |-> Zero,
   field_coverage |-> Zero,
   classification_accuracy |-> Zero,
   reasoning_depth |-> Zero,
   discussion_readiness |-> Zero,
   specificity |-> Zero,
   consistency |-> One,
   extra_text_parsing |-> One,
   overall_score |-> Zero]

required_keys ==
  <<<<"p", "e", "r", "s", "o", "n", "a", "_", "p", "r", "o", "m", "p", "t">>,
    <<"m", "u", "s", "t", "_", "a", "v", "o", "i", "d">>,
    <<"p", "r", "e", "f", "e", "r", "r", "e", "d">>,
    <<"r", "e", "a", "s", "o", "n", "i", "n", "g">>>>

\* the locals of line 43 to 46
persona_prompt(po) == DictGet(po, required_keys[1], PyStrVal(<<>>))

must_avoid(po) == DictGet(po, required_keys[2], PyList(<<>>))

preferred(po) == DictGet(po, required_keys[3], PyList(<<>>))

reasoning(po) == DictGet(po, required_keys[4], PyStrVal(<<>>))

\* a stage's outcome: its score, or err when the stage raised
Scored(v) == [err |-> FALSE, val |-> v]

Raised == [err |-> TRUE, val |-> Zero]

Tri(b) == IF b THEN "T" ELSE "F"

\* the number of "T" among xs
CountT(xs) == Cardinality({i \in 1..Len(xs) : xs[i] = "T"})

HasErr(xs) == \E i \in 1..Len(xs) : xs[i] = "E"

\* a variant of SchemaOf that gives 0.5 when a required key is missing
SchemaOfHalfWhenMissing(po) ==
  LET present == AllTri([i \in 1..Len(required_keys) |-> PyIn(required_keys[i], po)])
  IN IF present = "E" THEN Raised
     ELSE IF present = "F" THEN Scored(Half)
     ELSE IF po.t # "dict" THEN Raised
     ELSE IF IsList(GetKey(po, required_keys[2])) /\ IsList(GetKey(po, required_keys[3]))
          THEN Scored(One)
          ELSE Scored(Half)

\* Stage (a), line 24 to 41: the result of the try block on the parsed value po:
\* the compliance score, or err when a TypeError leaves the block
SchemaOf(po) ==
  LET present == AllTri([i \in 1..Len(required_keys) |-> PyIn(required_keys[i], po)])
  IN IF present = "E" THEN Raised
     ELSE IF present = "F" THEN Scored(Zero)
     ELSE IF po.t # "dict" THEN Raised
     ELSE IF IsList(GetKey(po, required_keys[2])) /\ IsList(GetKey(po, required_keys[3]))
          THEN Scored(One)
          ELSE Scored(Half)

\* a variant of FieldCoverage that divides by the four profile fields, applicable
\* or not
FieldCoverageOfAllFields(inp, po) ==
  LET sa == PyStr(must_avoid(po))
      sp == PyStr(preferred(po))
      pp == persona_prompt(po)
      al == AnyTri([i \in 1..Len(inp.allergies) |->
                      TriOr(Tri(IsSubstr(inp.allergies[i], sa)), PyIn(inp.allergies[i], pp))])
      ca == AnyTri([i \in 1..Len(inp.preferred_food_categories) |->
                      TriOr(Tri(IsSubstr(inp.preferred_food_categories[i], sp)),
                            PyIn(inp.preferred_food_categories[i], pp))])
      ing == AnyTri([i \in 1..Len(inp.preferred_ingredients) |->
                      TriOr(Tri(IsSubstr(inp.preferred_ingredients[i], sp)),
                            PyIn(inp.preferred_ingredients[i], pp))])
      ex == AnyTri([i \in 1..Len(inp.extra_text) |->
                      TriOr(Tri(IsSubstr(inp.extra_text[i], sa)),
                            TriOr(Tri(IsSubstr(inp.extra_text[i], sp)),
                                  PyIn(inp.extra_text[i], pp)))])
      \* one entry per applicable field, in the order of input_fields_check
      checks == (IF inp.allergies # <<>> THEN <<al>> ELSE <<>>)
                \o (IF inp.preferred_food_categories # <<>> THEN <<ca>> ELSE <<>>)
                \o (IF inp.preferred_ingredients # <<>> THEN <<ing>> ELSE <<>>)
                \o (IF inp.extra_text # <<>> THEN <<ex>> ELSE <<>>)
  IN IF HasErr(checks) THEN Raised
     ELSE IF checks = <<>> THEN Scored(One)
     ELSE Scored(Rat(CountT(checks), 4))

\* Stage (b), line 48 to 91
FieldCoverage(inp, po) ==
  LET sa == PyStr(must_avoid(po))
      sp == PyStr(preferred(po))
      pp == persona_prompt(po)
      al == AnyTri([i \in 1..Len(inp.allergies) |->
                      TriOr(Tri(IsSubstr(inp.allergies[i], sa)), PyIn(inp.allergies[i], pp))])
      ca == AnyTri([i \in 1..Len(inp.preferred_food_categories) |->
                      TriOr(Tri(IsSubstr(inp.preferred_food_categories[i], sp)),
                            PyIn(inp.preferred_food_categories[i], pp))])
      ing == AnyTri([i \in 1..Len(inp.preferred_ingredients) |->
                      TriOr(Tri(IsSubstr(inp.preferred_ingredients[i], sp)),
                            PyIn(inp.preferred_ingredients[i], pp))])
      ex == AnyTri([i \in 1..Len(inp.extra_text) |->
                      TriOr(Tri(IsSubstr(inp.extra_text[i], sa)),
                            TriOr(Tri(IsSubstr(inp.extra_text[i], sp)),
                                  PyIn(inp.extra_text[i], pp)))])
      \* one entry per applicable field, in the order of input_fields_check
      checks == (IF inp.allergies # <<>> THEN <<al>> ELSE <<>>)
                \o (IF inp.preferred_food_categories # <<>> THEN <<ca>> ELSE <<>>)
                \o (IF inp.preferred_ingredients # <<>> THEN <<ing>> ELSE <<>>)
                \o (IF inp.extra_text # <<>> THEN <<ex>> ELSE <<>>)
  IN IF HasErr(checks) THEN Raised
     ELSE IF checks = <<>> THEN Scored(One)
     ELSE Scored(Rat(CountT(checks), Len(checks)))

\* any(x in item for item in v), line 100, 108 and 198
AnyItemHolds(x, v) ==
  IF NotIterable(v) THEN "E"
  ELSE AnyTri([i \in 1..Len(Elements(v)) |-> PyIn(x, Elements(v)[i])])

\* a variant of ClassificationAccuracy that looks every item up in both lists
ClassificationAccuracyEitherBucket(inp, po) ==
  LET prefs == inp.preferred_food_categories \o inp.preferred_ingredients
      checks == [i \in 1..Len(inp.allergies) |-> TriOr(AnyItemHolds(inp.allergies[i], must_avoid(po)),
                                                   AnyItemHolds(inp.allergies[i], preferred(po)))]
                \o [i \in 1..Len(prefs) |-> TriOr(AnyItemHolds(prefs[i], preferred(po)),
                                               AnyItemHolds(prefs[i], must_avoid(po)))]
  IN IF HasErr(checks) THEN Raised
     ELSE IF Len(checks) > 0 THEN Scored(Rat(CountT(checks), Len(checks)))
     ELSE Scored(One)

\* Stage (c), line 93 to 115
ClassificationAccuracy(inp, po) ==
  LET prefs == inp.preferred_food_categories \o inp.preferred_ingredients
      checks == [i \in 1..Len(inp.allergies) |-> AnyItemHolds(inp.allergies[i], must_avoid(po))]
                \o [i \in 1..Len(prefs) |-> AnyItemHolds(prefs[i], preferred(po))]
  IN IF HasErr(checks) THEN Raised
     ELSE IF Len(checks) > 0 THEN Scored(Rat(CountT(checks), Len(checks)))
     ELSE Scored(One)

\* any(w in v for w in words), with v a str, a list or a dict
AnyWordIn(words, v) == \E i \in 1..Len(words) : PyIn(words[i], v) = "T"

causal_words ==
  <<<<"h_wae", "h_nya", "h_ha", "h_myeon">>,
    <<"h_tta", "h_ra", "h_seo">>,
    <<"h_go", "h_ryeo", "h_ha", "h_yeo">>,
    <<"h_ttae", "h_mun", "h_e">>,
    <<"h_bun", "h_ryu">>,
    <<"b", "e", "c", "a", "u", "s", "e">>,
    <<"d", "u", "e", " ", "t", "o">>,
    <<"c", "o", "n", "s", "i", "d", "e", "r", "i", "n", "g">>>>

distinction_words ==
  <<<<"m", "u", "s", "t", "_", "a", "v", "o", "i", "d">>,
    <<"p", "r", "e", "f", "e", "r", "r", "e", "d">>,
    <<"h_je", "h_yak">>,
    <<"h_seon", "h_ho">>>>

\* the length from which a reasoning text earns 0.3 (line 119)
MinReasoningLen == 50

\* Stage (d), line 117 to 142, in tenths
ReasoningDepth(po) ==
  LET r == reasoning(po)
  IN IF NotIterable(r) THEN Raised
     ELSE Scored(RatMin(Rat((IF PyLen(r) >= MinReasoningLen THEN 3 ELSE 0)
                            + (IF AnyWordIn(causal_words, r) THEN 3 ELSE 0)
                            + (IF AnyWordIn(distinction_words, r) THEN 4 ELSE 0), 10), One))

role_words ==
  <<<<"h_dang", "h_sin", "h_eun">>,
    <<"Y", "o", "u", " ", "a", "r", "e">>,
    <<"h_to", "h_ron">>,
    <<"d", "i", "s", "c", "u", "s", "s", "i", "o", "n">>,
    <<"r", "o", "l", "e">>,
    <<"h_cham", "h_yeo">>,
    <<"h_yeok", "h_hal">>>>

refusal_words ==
  <<<<"h_jeol", "h_dae">>,
    <<"h_an", " ", "h_doem">>,
    <<"h_mot", " ", "h_meok">>,
    <<"a", "l", "l", "e", "r", "g">>,
    <<"n", "e", "v", "e", "r">>,
    <<"c", "a", "n", "n", "o", "t">>>>

negotiation_words ==
  <<<<"h_hyeop", "h_ui">>,
    <<"h_ga", "h_neung">>,
    <<"h_seon", "h_ho">>,
    <<"p", "r", "e", "f", "e", "r">>,
    <<"n", "e", "g", "o", "t", "i", "a", "b">>,
    <<"h_jo", "h_yul">>>>

\* a variant of DiscussionReadiness that gives the middle 0.3 to every
\* must_avoid, with or without refusal words
DiscussionReadinessWithoutRefusal(po) ==
  LET pp == persona_prompt(po)
      ma == must_avoid(po)
      pr == preferred(po)
  IN IF NotIterable(pp) THEN Raised
     ELSE Scored(RatMin(Rat((IF AnyWordIn(role_words, pp) THEN 3 ELSE 0)
                            + 3
                            + (IF Truthy(pr) /\ AnyWordIn(negotiation_words, pp) THEN 4
                               ELSE IF ~Truthy(pr) THEN 4 ELSE 0), 10), One))

\* Stage (e), line 144 to 165, in tenths
DiscussionReadiness(po) ==
  LET pp == persona_prompt(po)
      ma == must_avoid(po)
      pr == preferred(po)
  IN IF NotIterable(pp) THEN Raised
     ELSE Scored(RatMin(Rat((IF AnyWordIn(role_words, pp) THEN 3 ELSE 0)
                            + (IF Truthy(ma) /\ AnyWordIn(refusal_words, pp) THEN 3
                               ELSE IF ~Truthy(ma) THEN 3 ELSE 0)
                            + (IF Truthy(pr) /\ AnyWordIn(negotiation_words, pp) THEN 4
                               ELSE IF ~Truthy(pr) THEN 4 ELSE 0), 10), One))

\* Stage (f), line 167 to 189
Specificity(inp, po) ==
  LET pp == persona_prompt(po)
      all_keywords == inp.allergies \o inp.preferred_food_categories \o inp.preferred_ingredients
      found == [i \in 1..Len(all_keywords) |->
                  TriOr(PyIn(all_keywords[i], pp),
                        TriOr(Tri(IsSubstr(all_keywords[i], PyStr(must_avoid(po)))),
                              Tri(IsSubstr(all_keywords[i], PyStr(preferred(po))))))]
      named == IF inp.name # <<>> THEN <<PyIn(inp.name, pp)>> ELSE <<>>
      \* found / len(all_keywords) > 0.5
      checks == (IF all_keywords # <<>>
                 THEN <<Tri(2 * CountT(found) > Len(all_keywords))>> ELSE <<>>) \o named
  IN IF HasErr(found) \/ HasErr(named) THEN Raised
     ELSE IF Len(checks) > 0 THEN Scored(Rat(CountT(checks), Len(checks)))
     ELSE Scored(One)

\* not set(a).isdisjoint(set(b)), for a and b that set() accepts
SetsIntersect(a, b) ==
  \E i \in 1..Len(Elements(a)) : \E j \in 1..Len(Elements(b)) :
     PyEq(Elements(a)[i], Elements(b)[j])

\* a variant of Consistency that takes 0.5 once for all the allergies among the
\* preferred entries
ConsistencyOnePenalty(inp, po) ==
  LET ma == must_avoid(po)
      pr == preferred(po)
      hits == [i \in 1..Len(inp.allergies) |-> AnyItemHolds(inp.allergies[i], pr)]
      halves == (IF SetsIntersect(ma, pr) THEN 1 ELSE 0) + (IF CountT(hits) > 0 THEN 1 ELSE 0)
  IN IF SetRaises(ma) \/ SetRaises(pr) \/ HasErr(hits) THEN Raised
     ELSE Scored(RatMax(RatSub(One, Rat(halves, 2)), Zero))

\* a variant of Consistency without the floor at 0.0
ConsistencyUnfloored(inp, po) ==
  LET ma == must_avoid(po)
      pr == preferred(po)
      hits == [i \in 1..Len(inp.allergies) |-> AnyItemHolds(inp.allergies[i], pr)]
      halves == (IF SetsIntersect(ma, pr) THEN 1 ELSE 0) + CountT(hits)
  IN IF SetRaises(ma) \/ SetRaises(pr) \/ HasErr(hits) THEN Raised
     ELSE Scored(RatSub(One, Rat(halves, 2)))

\* Stage (g), line 191 to 200
Consistency(inp, po) ==
  LET ma == must_avoid(po)
      pr == preferred(po)
      hits == [i \in 1..Len(inp.allergies) |-> AnyItemHolds(inp.allergies[i], pr)]
      halves == (IF SetsIntersect(ma, pr) THEN 1 ELSE 0) + CountT(hits)
  IN IF SetRaises(ma) \/ SetRaises(pr) \/ HasErr(hits) THEN Raised
     ELSE Scored(RatMax(RatSub(One, Rat(halves, 2)), Zero))

\* re.search of the alternative an \s* doem of strong_pattern
MatchesAnDoem(text) ==
  \E i \in 1..Len(text) : \E j \in (i + 1)..Len(text) :
     /\ text[i] = "h_an"
     /\ text[j] = "h_doem"
     /\ \A m \in (i + 1)..(j - 1) : text[m] \in Whitespace

strong_words ==
  <<<<"h_jeol", "h_dae">>,
    <<"h_bul", "h_ga">>,
    <<"h_geum", "h_ji">>,
    <<"N", "O">>,
    <<"h_an", "h_dwae">>,
    <<"n", "e", "v", "e", "r">>,
    <<"f", "o", "r", "b", "i", "d", "d", "e", "n">>>>

\* re.search(strong_pattern, text), line 206 and 212
IsStrong(text) ==
  MatchesAnDoem(text) \/ \E i \in 1..Len(strong_words) : IsSubstr(strong_words[i], text)

\* a variant of ReflectedInAvoid that also takes the words of one character
ReflectedInAvoidAnyWord(text, po) ==
  LET words == Split(text)
  IN \E i \in 1..Len(words) : IsSubstr(words[i], PyStr(must_avoid(po)))

\* line 219 and 220: some word of text, longer than one character, is in str(must_avoid)
ReflectedInAvoid(text, po) ==
  LET words == Split(text)
  IN \E i \in 1..Len(words) : Len(words[i]) > 1 /\ IsSubstr(words[i], PyStr(must_avoid(po)))

\* Stage (h), line 202 to 232
ExtraTextParsing(inp, po) ==
  LET strong == {i \in 1..Len(inp.extra_text) : IsStrong(inp.extra_text[i])}
      correct == {i \in strong : ReflectedInAvoid(inp.extra_text[i], po)}
  IN IF strong # {} THEN Scored(Rat(Cardinality(correct), Cardinality(strong)))
     ELSE Scored(One)

RECURSIVE RatSum(_)
RatSum(xs) == IF xs = <<>> THEN Zero ELSE RatAdd(Head(xs), RatSum(Tail(xs)))

\* scores.values()
ScoreValues(sc) ==
  <<sc.json_schema_compliance, sc.field_coverage, sc.classification_accuracy,
    sc.reasoning_depth, sc.discussion_readiness, sc.specificity, sc.consistency,
    sc.extra_text_parsing, sc.overall_score>>

\* a variant of OverallScore that divides by the eight sub-scores
OverallScoreOfEight(sc) ==
  LET total == RatSum(ScoreValues(sc))
  IN Rat(total[1], total[2] * (Len(ScoreValues(sc)) - 1))

\* Stage (i), line 234: sum(scores.values()) / len(scores)
OverallScore(sc) ==
  LET total == RatSum(ScoreValues(sc))
  IN Rat(total[1], total[2] * Len(ScoreValues(sc)))

----------------------------------------------------------------------------
(* The scoring call as a state machine: one action per stage *)

VARIABLES
  \* calculate_persona_generation_metrics
  input_data,      \* the profile the call scores against
  output_text,     \* the text it scores
  parsed_output,   \* line 21 and 25
  scores,          \* the ScoreCard under construction
  s_pc,            \* the stage about to run, "returned", "raised", or "idle"
  \* RealModelInterface.generate
  env,             \* what the backends' environment may do (never changes)
  now,             \* the clock time.time() reads
  g_pc,            \* the statement generate is at, "returned", "raised", or "idle"
  system_prompt,
  user_input,
  user_content,
  prompt_text,
  start_time,
  ttft,
  first_token_received,
  collected_chunks,
  usage_data,
  chunks_seen,     \* the number of chunks the stream has yielded
  response_text,
  latency,
  in_tokens,
  g_result,        \* the dict generate returns
  faults,          \* history: the steps of this call at which an exception was raised
  first_elapsed,   \* history: the time from start to the first delta with content, or -1
  end_elapsed,     \* history: the time from start to the end of the stream, or -1
  \* main
  models_config,
  m_pc,            \* the statement main is at
  model_ix,        \* the position in models_config of the for loop of line 70
  case_ix,         \* the position in TEST_CASES of the for loop of line 84
  model,           \* line 74: the adapter, or None
  all_results,
  events           \* history: what main has done, in order

score_vars == <<input_data, output_text, parsed_output, scores, s_pc>>

gen_vars ==
  <<now, g_pc, system_prompt, user_input, user_content, prompt_text, start_time, ttft,
    first_token_received, collected_chunks, usage_data, chunks_seen, response_text,
    latency, in_tokens, g_result, faults, first_elapsed, end_elapsed>>

main_vars == <<models_config, m_pc, model_ix, case_ix, model, all_results, events>>

vars == <<score_vars, env, gen_vars, main_vars>>

\* a variant of ReturnsEarly that ends the call unless stage (a) gave 1.0
ReturnsEarlyUnlessFull(sc) == sc.json_schema_compliance # One

\* line 40: the check that ends the call after stage (a)
ReturnsEarly(sc) == sc.json_schema_compliance = Zero

\* line 9 to 41
SchemaCompliance ==
  /\ s_pc = "schema"
  /\ LET r == JsonLoads(output_text)
     IN /\ r.st # "unsup"
        /\ IF r.st = "bad"
           THEN \* except json.JSONDecodeError: return scores
                /\ scores' = [scores EXCEPT !.json_schema_compliance = Zero]
                /\ s_pc' = "returned"
                /\ UNCHANGED parsed_output
           ELSE /\ parsed_output' = r.v
                /\ IF SchemaOf(r.v).err
                   THEN s_pc' = "raised" /\ UNCHANGED scores
                   ELSE /\ scores' = [scores EXCEPT
                                        !.json_schema_compliance = SchemaOf(r.v).val]
                        /\ s_pc' = IF ReturnsEarly(scores') THEN "returned" ELSE "coverage"
  /\ UNCHANGED <<input_data, output_text, env, gen_vars, main_vars>>

\* a stage ends: it has set one field of the ScoreCard, or it has raised
StageEnds(r, field, next) ==
  /\ IF r.err
     THEN s_pc' = "raised" /\ UNCHANGED scores
     ELSE s_pc' = next /\ scores' = [scores EXCEPT ![field] = r.val]
  /\ UNCHANGED <<input_data, output_text, parsed_output, env, gen_vars, main_vars>>

StageFieldCoverage ==
  /\ s_pc = "coverage"
  /\ StageEnds(FieldCoverage(input_data, parsed_output), "field_coverage", "classification")

StageClassificationAccuracy ==
  /\ s_pc = "classification"
  /\ StageEnds(ClassificationAccuracy(input_data, parsed_output),
               "classification_accuracy", "reasoning")

StageReasoningDepth ==
  /\ s_pc = "reasoning"
  /\ StageEnds(ReasoningDepth(parsed_output), "reasoning_depth", "readiness")

StageDiscussionReadiness ==
  /\ s_pc = "readiness"
  /\ StageEnds(DiscussionReadiness(parsed_output), "discussion_readiness", "specificity")

StageSpecificity ==
  /\ s_pc = "specificity"
  /\ StageEnds(Specificity(input_data, parsed_output), "specificity", "consistency")

StageConsistency ==
  /\ s_pc = "consistency"
  /\ StageEnds(Consistency(input_data, parsed_output), "consistency", "extra_text")

StageExtraTextParsing ==
  /\ s_pc = "extra_text"
  /\ StageEnds(ExtraTextParsing(input_data, parsed_output), "extra_text_parsing", "overall")

\* line 234 and 235
StageOverallScore ==
  /\ s_pc = "overall"
  /\ StageEnds(Scored(OverallScore(scores)), "overall_score", "returned")

ScoreStep ==
  \/ SchemaCompliance
  \/ StageFieldCoverage
  \/ StageClassificationAccuracy
  \/ StageReasoningDepth
  \/ StageDiscussionReadiness
  \/ StageSpecificity
  \/ StageConsistency
  \/ StageExtraTextParsing
  \/ StageOverallScore

\* the call calculate_persona_generation_metrics(inp, text) begins
ScoreCall(inp, text) ==
  /\ input_data = inp
  /\ output_text = text
  /\ parsed_output = PyDict(<<>>)
  /\ scores = InitialScores
  /\ s_pc = "schema"

----------------------------------------------------------------------------
(* The profiles and output texts the scoring call is checked on *)

\* the longest list of a profile or of an output the inputs hold
MaxList == 2

SeqsUpTo(S, n) == UNION {[1..m -> S] : m \in 0..n}

Profile(name, allergies, categories, ingredients, extra) ==
  [name |-> name,
   allergies |-> allergies,
   preferred_food_categories |-> categories,
   preferred_ingredients |-> ingredients,
   extra_text |-> extra]

\* the persona object a model is asked for
Persona(pp, ma, pr, re) ==
  PyDict(<<Entry(required_keys[1], pp), Entry(required_keys[2], ma),
           Entry(required_keys[3], pr), Entry(required_keys[4], re)>>)

EmptyProfile == Profile(<<>>, <<>>, <<>>, <<>>, <<>>)

FullProfile ==
  Profile(<<"K", "i", "m">>, <<<<"n", "u", "t">>, <<"e", "g", "g">>>>, <<<<"K", "o", "r", "e", "a", "n">>>>, <<<<"r", "i", "c", "e">>>>,
          <<<<"n", "e", "v", "e", "r", " ", "e", "g", "g">>, <<"l", "i", "k", "e", " ", "r", "i", "c", "e">>>>)

NutProfile == Profile(<<"K", "i", "m">>, <<<<"n", "u", "t">>>>, <<>>, <<>>, <<>>)

\* profiles of every shape
WideProfiles ==
  {Profile(<<"K", "i", "m">>, a, ci[1], ci[2], e) :
     a \in SeqsUpTo({<<"n", "u", "t">>, <<"e", "g", "g">>}, MaxList),
     ci \in {<<<<>>, <<>>>>, <<<<<<"K", "o", "r", "e", "a", "n">>>>, <<<<"r", "i", "c", "e">>>>>>},
     e \in SeqsUpTo({<<"n", "e", "v", "e", "r", " ", "e", "g", "g">>, <<"N", "O", " ", "x">>, <<"l", "i", "k", "e", " ", "r", "i", "c", "e">>}, MaxList)}

FewProfiles == {EmptyProfile, FullProfile, NutProfile}

LongReasoning ==
  <<"n", "u", "t", " ", "i", "s", " ", "a", "n", " ", "a", "l", "l", "e", "r", "g", "y", " ", "s", "o", " ", "i", "t", " ", "i", "s", " ", "c", "l", "a", "s", "s", "i", "f", "i", "e", "d", " ", "a", "s", " ", "m", "u", "s", "t", "_", "a", "v", "o", "i", "d", " ", "b", "e", "c", "a", "u", "s", "e", " ", "o", "f", " ", "s", "a", "f", "e", "t", "y">>

PromptTexts ==
  {<<>>,
   <<"Y", "o", "u", " ", "a", "r", "e", " ", "K", "i", "m", ".", " ", "n", "e", "v", "e", "r", " ", "e", "a", "t", " ", "n", "u", "t", ".", " ", "p", "r", "e", "f", "e", "r", " ", "K", "o", "r", "e", "a", "n", " ", "r", "i", "c", "e", ".">>,
   <<"h_dang", "h_sin", "h_eun", " ", "K", "i", "m", " ", "h_jeol", "h_dae", " ", "n", "u", "t", " ", "h_seon", "h_ho">>}

ReasoningTexts ==
  {<<>>, <<"b", "e", "c", "a", "u", "s", "e">>, LongReasoning}

\* well-typed personas of every shape
WidePersonas ==
  {Persona(PyStrVal(pp), StrList(ma), StrList(pr), PyStrVal(re)) :
     pp \in PromptTexts,
     ma \in SeqsUpTo({<<"p", "e", "a", "n", "u", "t">>, <<"e", "g", "g">>}, MaxList),
     pr \in SeqsUpTo({<<"e", "g", "g">>, <<"p", "e", "a", "n", "u", "t">>}, MaxList),
     re \in ReasoningTexts}

FewPersonas ==
  {Persona(PyStrVal(<<"Y", "o", "u", " ", "a", "r", "e", " ", "K", "i", "m", ".", " ", "n", "e", "v", "e", "r", " ", "e", "a", "t", " ", "n", "u", "t", ".", " ", "p", "r", "e", "f", "e", "r", " ", "K", "o", "r", "e", "a", "n", " ", "r", "i", "c", "e", ".">>),
           StrList(<<<<"n", "u", "t">>, <<"e", "g", "g">>>>), StrList(<<<<"K", "o", "r", "e", "a", "n">>, <<"r", "i", "c", "e">>>>),
           PyStrVal(LongReasoning)),
   Persona(PyStrVal(<<>>), StrList(<<>>), StrList(<<>>), PyStrVal(<<>>)),
   Persona(PyStrVal(<<"e", "a", "t", " ", "e", "g", "g">>), StrList(<<<<"n", "e", "v", "e", "r", " ", "e", "g", "g", " ", "x">>>>), StrList(<<<<"e", "g", "g">>, <<"n", "u", "t">>>>),
           PyStrVal(<<"b", "e", "c", "a", "u", "s", "e">>))}

\* values of every JSON type, for a field that should hold a str or a list of str
TypedValues ==
  {PyNone,
   PyNum(<<"5">>),
   PyStrVal(<<"n", "u", "t">>),
   PyList(<<PyNum(<<"5">>)>>),
   PyList(<<PyList(<<>>)>>),
   PyDict(<<Entry(<<"n", "u", "t">>, PyNone)>>)}

\* personas holding the four keys with values of every type
MistypedPersonas ==
  {Persona(pp, ma, pr, re) :
     pp \in TypedValues, ma \in TypedValues, pr \in TypedValues, re \in TypedValues}

\* JSON objects that lack a required key
PartialObjects ==
  {PyDict(<<>>),
   PyDict(<<Entry(required_keys[1], PyStrVal(<<"e", "a", "t", " ", "e", "g", "g">>))>>),
   PyDict(<<Entry(required_keys[1], PyStrVal(<<"e", "a", "t", " ", "e", "g", "g">>)),
            Entry(required_keys[2], StrList(<<<<"e", "g", "g">>>>)),
            Entry(required_keys[3], StrList(<<>>))>>),
   PyDict(<<Entry(required_keys[2], PyNone), Entry(required_keys[3], PyNone),
            Entry(required_keys[4], PyNone)>>)}

\* JSON values that are not objects
NonObjects ==
  {PyNone,
   PyNum(<<"5">>),
   PyNum(<<"T", "r", "u", "e">>) ,
   PyStrVal(<<"n", "u", "t">>),
   PyStrVal(JoinWith(<<" ">>, required_keys)),
   PyList(<<>>),
   PyList(<<PyStrVal(<<"n", "u", "t">>)>>),
   StrList(required_keys)}

\* texts json.loads rejects
MalformedTexts ==
  {<<>>,
   <<"o", "o", "p", "s">>,
   <<"{">>,
   <<"{", "\"", "p", "e", "r", "s", "o", "n", "a", "_", "p", "r", "o", "m", "p", "t", "\"", ":", " ", "\"", "e", "a", "t", " ", "e", "g", "g", "\"", ",", "}">>,
   <<"H", "e", "r", "e", " ", "i", "s", " ", "t", "h", "e", " ", "p", "e", "r", "s", "o", "n", "a", ":", " ", "{", "\"", "m", "u", "s", "t", "_", "a", "v", "o", "i", "d", "\"", ":", " ", "[", "]", "}">>,
   <<"[", "5", "]", " ", "[", "5", "]">>,
   <<"{", "'", "m", "u", "s", "t", "_", "a", "v", "o", "i", "d", "'", ":", " ", "[", "]", "}">>,
   <<"GRAVE", "GRAVE", "GRAVE", "j", "s", "o", "n", "\n", "{", "}", "\n", "GRAVE", "GRAVE", "GRAVE">>}

\* JSON text laid out otherwise than json.dumps lays it out
LaidOutTexts ==
  {<<" ", "{", "\"", "p", "e", "r", "s", "o", "n", "a", "_", "p", "r", "o", "m", "p", "t", "\"", ":", "\"", "e", "a", "t", " ", "e", "g", "g", "\"", " ", ",", " ", "\"", "m", "u", "s", "t", "_", "a", "v", "o", "i", "d", "\"", ":", "[", "\"", "e", "g", "g", "\"", "]", ",", "\n", " ", "\"", "p", "r", "e", "f", "e", "r", "r", "e", "d", "\"", " ", ":", " ", "[", " ", "]", " ", ",", "\"", "r", "e", "a", "s", "o", "n", "i", "n", "g", "\"", ":", "\"", "b", "e", "c", "a", "u", "s", "e", "\"", "}", "\n">>,
   <<"{", "\"", "r", "e", "a", "s", "o", "n", "i", "n", "g", "\"", ":", " ", "\"", "a", "\"", ",", " ", "\"", "r", "e", "a", "s", "o", "n", "i", "n", "g", "\"", ":", " ", "\"", "b", "e", "c", "a", "u", "s", "e", "\"", "}">>,
   <<" ", "n", "u", "l", "l", " ">>}

JsonText(v) == JsonDumps(v, FALSE)

\* json.dumps writes True as true
JsonTexts(vs) == {JsonText(v) : v \in vs \ {PyNum(<<"T", "r", "u", "e">>)}} \cup {<<"t", "r", "u", "e">>}

----------------------------------------------------------------------------
(* model_interface.py: RealModelInterface *)

Fence == <<"GRAVE", "GRAVE", "GRAVE">>

FenceJson == <<"GRAVE", "GRAVE", "GRAVE", "j", "s", "o", "n">>

\* w occurs in t at position i
Occurs(w, t, i) == i + Len(w) - 1 <= Len(t) /\ SubSeq(t, i, i + Len(w) - 1) = w

Least(S) == CHOOSE x \in S : \A y \in S : x <= y

\* Python: t[p:].replace("```", "")
RECURSIVE RemoveFences(_, _)
RemoveFences(t, p) ==
  LET at == {i \in p..Len(t) : Occurs(Fence, t, i)}
  IN IF at = {} THEN SubSeq(t, p, Len(t))
     ELSE SubSeq(t, p, Least(at) - 1) \o RemoveFences(t, Least(at) + Len(Fence))

\* a variant of _clean_json_markdown whose pattern is greedy: (.*) for (.*?)
CleanUpToLastFence(text) ==
  LET closing(i) == {j \in (i + Len(FenceJson))..Len(text) : Occurs(Fence, text, j)}
      opening == {i \in 1..Len(text) : Occurs(FenceJson, text, i) /\ closing(i) # {}}
  IN IF opening # {}
     THEN LET i == Least(opening)
              j == CHOOSE j \in closing(i) : \A k \in closing(i) : k <= j
          IN Strip(SubSeq(text, i + Len(FenceJson), j - 1))
     ELSE Strip(RemoveFences(text, 1))

\* line 185 to 190
_clean_json_markdown(text) ==
  LET closing(i) == {j \in (i + Len(FenceJson))..Len(text) : Occurs(Fence, text, j)}
      opening == {i \in 1..Len(text) : Occurs(FenceJson, text, i) /\ closing(i) # {}}
  IN IF opening # {}
     THEN LET i == Least(opening)
          IN Strip(SubSeq(text, i + Len(FenceJson), Least(closing(i)) - 1))
     ELSE Strip(RemoveFences(text, 1))

\* line 192 to 199
_error_response(error_msg) ==
  [text |-> JsonDumps(PyDict(<<Entry(<<"e", "r", "r", "o", "r">>, PyStrVal(error_msg))>>), TRUE),
   ttft |-> 0,
   latency |-> 0,
   input_tokens |-> 0,
   output_tokens |-> 0]

\* Python's None, where a dict or an adapter is expected
NoResult == [text |-> <<>>, ttft |-> -1, latency |-> -1, input_tokens |-> -1, output_tokens |-> -1]

NoUsage == [present |-> FALSE, prompt_tokens |-> 0, completion_tokens |-> 0]

Usage(p, c) == [present |-> TRUE, prompt_tokens |-> p, completion_tokens |-> c]

\* the adapter __init__ builds (line 29 and 30), and None
Adapter(name, is_local) == [alive |-> TRUE, model_name |-> name, is_local |-> is_local]

NoAdapter == [alive |-> FALSE, model_name |-> "", is_local |-> FALSE]

\* user_input as the dict json.dumps is given
ProfileDict(inp) ==
  PyDict(<<Entry(<<"n", "a", "m", "e">>, PyStrVal(inp.name)),
           Entry(<<"a", "l", "l", "e", "r", "g", "i", "e", "s">>, StrList(inp.allergies)),
           Entry(<<"p", "r", "e", "f", "e", "r", "r", "e", "d", "_", "f", "o", "o", "d", "_", "c", "a", "t", "e", "g", "o", "r", "i", "e", "s">>, StrList(inp.preferred_food_categories)),
           Entry(<<"p", "r", "e", "f", "e", "r", "r", "e", "d", "_", "i", "n", "g", "r", "e", "d", "i", "e", "n", "t", "s">>, StrList(inp.preferred_ingredients)),
           Entry(<<"e", "x", "t", "r", "a", "_", "t", "e", "x", "t">>, StrList(inp.extra_text))>>)

\* line 89: the fallback prompt
FallbackPrompt(sp, uc) ==
  <<"S", "y", "s", "t", "e", "m", ":", " ">> \o sp \o <<"\n", "U", "s", "e", "r", ":", " ">> \o uc \o <<"\n", "A", "s", "s", "i", "s", "t", "a", "n", "t", ":">>

\* the tokenizer's own chat template: a rendering of the two messages
ChatTemplate(sp, uc) == <<"<", "|", "s", "y", "s", "t", "e", "m", "|", ">">> \o sp \o <<"<", "|", "u", "s", "e", "r", "|", ">">> \o uc \o <<"<", "|", "a", "s", "s", "i", "s", "t", "a", "n", "t", "|", ">">>

\* the variables a step of generate leaves alone, beside those it names
GenKeeps(changed) ==
  /\ UNCHANGED <<score_vars, env, main_vars, system_prompt, user_input>>
  /\ IF "now" \in changed THEN TRUE ELSE UNCHANGED now
  /\ IF "user_content" \in changed THEN TRUE ELSE UNCHANGED user_content
  /\ IF "prompt_text" \in changed THEN TRUE ELSE UNCHANGED prompt_text
  /\ IF "start_time" \in changed THEN TRUE ELSE UNCHANGED start_time
  /\ IF "ttft" \in changed THEN TRUE ELSE UNCHANGED ttft
  /\ IF "first_token_received" \in changed THEN TRUE ELSE UNCHANGED first_token_received
  /\ IF "collected_chunks" \in changed THEN TRUE ELSE UNCHANGED collected_chunks
  /\ IF "usage_data" \in changed THEN TRUE ELSE UNCHANGED usage_data
  /\ IF "chunks_seen" \in changed THEN TRUE ELSE UNCHANGED chunks_seen
  /\ IF "response_text" \in changed THEN TRUE ELSE UNCHANGED response_text
  /\ IF "latency" \in changed THEN TRUE ELSE UNCHANGED latency
  /\ IF "in_tokens" \in changed THEN TRUE ELSE UNCHANGED in_tokens
  /\ IF "g_result" \in changed THEN TRUE ELSE UNCHANGED g_result
  /\ IF "faults" \in changed THEN TRUE ELSE UNCHANGED faults
  /\ IF "first_elapsed" \in changed THEN TRUE ELSE UNCHANGED first_elapsed
  /\ IF "end_elapsed" \in changed THEN TRUE ELSE UNCHANGED end_elapsed

\* return self._error_response(str(e))
ReturnsError(step) ==
  \E msg \in env.messages :
    /\ g_result' = _error_response(msg)
    /\ g_pc' = "returned"
    /\ faults' = faults \cup {step}

\* an exception leaves generate
Propagates(step) ==
  /\ g_pc' = "raised"
  /\ faults' = faults \cup {step}

\* line 65 to 68: generate dispatches on is_local
Generate ==
  /\ g_pc = "call"
  /\ g_pc' = IF model.is_local THEN "local" ELSE "api"
  /\ GenKeeps({})

\* line 75 to 89: the prompt, by the chat template or, when that raises, the fallback
LocalPrompt ==
  /\ g_pc = "local"
  /\ user_content' = JsonDumps(ProfileDict(user_input), FALSE)
  /\ \/ prompt_text' = ChatTemplate(system_prompt, user_content') /\ UNCHANGED faults
     \/ /\ prompt_text' = FallbackPrompt(system_prompt, user_content')
        /\ faults' = faults \cup {"chat_template"}
  /\ g_pc' = "pipe"
  /\ GenKeeps({"user_content", "prompt_text", "faults"})

\* line 91 to 103
LocalPipe ==
  /\ g_pc = "pipe"
  /\ start_time' = now
  /\ \/ /\ \E text \in env.texts : response_text' = text
        /\ g_pc' = "latency"
        /\ UNCHANGED <<g_result, faults>>
     \/ ReturnsError("pipe") /\ UNCHANGED response_text
  /\ GenKeeps({"start_time", "response_text", "g_result", "faults"})

\* line 105
LocalLatency ==
  /\ g_pc = "latency"
  /\ latency' = now - start_time
  /\ g_pc' = "encode_prompt"
  /\ GenKeeps({"latency"})

\* line 109: len(self.tokenizer.encode(prompt_text))
LocalEncodePrompt ==
  /\ g_pc = "encode_prompt"
  /\ \/ /\ \E n \in 0..env.max_tokens : in_tokens' = n
        /\ g_pc' = "encode_response"
        /\ UNCHANGED faults
     \/ Propagates("encode_prompt") /\ UNCHANGED in_tokens
  /\ GenKeeps({"in_tokens", "faults"})

\* line 106 and 110 to 118
LocalEncodeResponse ==
  /\ g_pc = "encode_response"
  /\ \/ /\ \E n \in 0..env.max_tokens :
             g_result' = [text |-> _clean_json_markdown(response_text),
                          ttft |-> 0,
                          latency |-> latency,
                          input_tokens |-> in_tokens,
                          output_tokens |-> n]
        /\ g_pc' = "returned"
        /\ UNCHANGED faults
     \/ Propagates("encode_response") /\ UNCHANGED g_result
  /\ GenKeeps({"g_result", "faults"})

\* line 123 to 125
ApiBegin ==
  /\ g_pc = "api"
  /\ user_content' = JsonDumps(ProfileDict(user_input), FALSE)
  /\ start_time' = now
  /\ ttft' = 0
  /\ g_pc' = "create"
  /\ GenKeeps({"user_content", "start_time", "ttft"})

\* line 130 to 143
ApiCreate ==
  /\ g_pc = "create"
  /\ \/ /\ collected_chunks' = <<>>
        /\ first_token_received' = FALSE
        /\ usage_data' = NoUsage
        /\ g_pc' = "stream"
        /\ UNCHANGED <<g_result, faults>>
     \/ /\ ReturnsError("create")
        /\ UNCHANGED <<collected_chunks, first_token_received, usage_data>>
  /\ GenKeeps({"collected_chunks", "first_token_received", "usage_data", "g_result", "faults"})

\* the chunks a stream may yield: choices empty or not, delta.content (<<>> for "" and
\* for None), and usage
Chunks ==
  {ch \in [choices : BOOLEAN, content : env.pieces \cup {<<>>},
           usage : env.usages \cup {NoUsage}] :
     ch.choices \/ ch.content = <<>>}

\* a variant of FirstTokenTime that every delta with content sets
FirstTokenTimeOfLatest(old, received, has_content, e) ==
  IF has_content THEN e ELSE old

\* line 146 to 152: ttft after a chunk, read at elapsed time e
FirstTokenTime(old, received, has_content, e) ==
  IF ~received /\ has_content THEN e ELSE old

\* line 145 to 159: the loop body, on the next chunk of the stream
ApiChunk ==
  /\ g_pc = "stream"
  /\ chunks_seen < env.max_chunks
  /\ \E chunk \in Chunks :
       LET has_content == chunk.choices /\ chunk.content # <<>>
       IN /\ ttft' = FirstTokenTime(ttft, first_token_received, has_content, now - start_time)
          /\ first_token_received' = (first_token_received \/ has_content)
          /\ collected_chunks' = IF has_content THEN Append(collected_chunks, chunk.content)
                                 ELSE collected_chunks
          /\ usage_data' = IF chunk.usage.present THEN chunk.usage ELSE usage_data
          /\ first_elapsed' = IF first_elapsed = -1 /\ has_content THEN now - start_time
                              ELSE first_elapsed
  /\ chunks_seen' = chunks_seen + 1
  /\ UNCHANGED g_pc
  /\ GenKeeps({"ttft", "first_token_received", "collected_chunks", "usage_data",
               "first_elapsed", "chunks_seen"})

\* line 145, 182 and 183: the stream raises (a transport failure)
ApiStreamRaises ==
  /\ g_pc = "stream"
  /\ ReturnsError("stream")
  /\ GenKeeps({"g_result", "faults"})

\* line 161 to 172: the stream has ended
ApiStreamEnds ==
  /\ g_pc = "stream"
  /\ response_text' = Flatten(collected_chunks)
  /\ ttft' = IF ttft = 0 THEN now - start_time ELSE ttft
  /\ in_tokens' = IF usage_data.present THEN usage_data.prompt_tokens
                  ELSE Len(system_prompt \o user_content) \div 4
  /\ end_elapsed' = now - start_time
  /\ g_pc' = "return"
  /\ GenKeeps({"response_text", "ttft", "in_tokens", "end_elapsed"})

\* a variant of ApiReturn that approximates output_tokens on the sanitized text
ApiReturnCountsSanitized ==
  /\ g_pc = "return"
  /\ g_result' = [text |-> _clean_json_markdown(response_text),
                  ttft |-> ttft,
                  latency |-> now - start_time,
                  input_tokens |-> in_tokens,
                  output_tokens |-> IF usage_data.present THEN usage_data.completion_tokens
                                    ELSE Len(_clean_json_markdown(response_text)) \div 4]
  /\ g_pc' = "returned"
  /\ GenKeeps({"g_result"})

\* line 166 to 180
ApiReturn ==
  /\ g_pc = "return"
  /\ g_result' = [text |-> _clean_json_markdown(response_text),
                  ttft |-> ttft,
                  latency |-> now - start_time,
                  input_tokens |-> in_tokens,
                  output_tokens |-> IF usage_data.present THEN usage_data.completion_tokens
                                    ELSE Len(response_text) \div 4]
  /\ g_pc' = "returned"
  /\ GenKeeps({"g_result"})

\* the clock advances while generate runs
Tick ==
  /\ g_pc \notin {"idle", "returned", "raised"}
  /\ now < env.max_time
  /\ now' = now + 1
  /\ UNCHANGED g_pc
  /\ GenKeeps({"now"})

GenStep ==
  \/ Generate
  \/ LocalPrompt
  \/ LocalPipe
  \/ LocalLatency
  \/ LocalEncodePrompt
  \/ LocalEncodeResponse
  \/ ApiBegin
  \/ ApiCreate
  \/ ApiChunk
  \/ ApiStreamRaises
  \/ ApiStreamEnds
  \/ ApiReturn
  \/ Tick

\* the locals of generate before a call
GenLocals ==
  /\ user_content = <<>>
  /\ prompt_text = <<>>
  /\ start_time = 0
  /\ ttft = 0
  /\ first_token_received = FALSE
  /\ collected_chunks = <<>>
  /\ usage_data = NoUsage
  /\ chunks_seen = 0
  /\ response_text = <<>>
  /\ latency = 0
  /\ in_tokens = 0
  /\ g_result = NoResult
  /\ faults = {}
  /\ first_elapsed = -1
  /\ end_elapsed = -1

\* no call of generate is under way
GenIdle ==
  /\ g_pc = "idle"
  /\ system_prompt = <<>>
  /\ user_input = EmptyProfile
  /\ GenLocals

\* the call generate(sp, inp) begins
GenCall(sp, inp) ==
  /\ g_pc = "call"
  /\ system_prompt = sp
  /\ user_input = inp
  /\ GenLocals

\* line 106 and 175: self._clean_json_markdown(response_text), on its own
Clean ==
  /\ g_pc = "clean"
  /\ g_result' = [NoResult EXCEPT !.text = _clean_json_markdown(response_text)]
  /\ g_pc' = "cleaned"
  /\ GenKeeps({"g_result"})

\* the sanitizer applied to its own result
CleanAgain ==
  /\ g_pc = "cleaned"
  /\ response_text' = g_result.text
  /\ g_result' = [NoResult EXCEPT !.text = _clean_json_markdown(g_result.text)]
  /\ g_pc' = "cleaned_again"
  /\ GenKeeps({"response_text", "g_result"})

CleanStep == Clean \/ CleanAgain

\* no call of the scoring function is under way
ScoreIdle ==
  /\ input_data = EmptyProfile
  /\ output_text = <<>>
  /\ parsed_output = PyDict(<<>>)
  /\ scores = InitialScores
  /\ s_pc = "idle"

----------------------------------------------------------------------------
(* main.py: main *)

\* prompts.py line 2 and 3: the opening of the system prompt, which stands for all of it
SYSTEM_PROMPT ==
  <<"\n", "Y", "o", "u", " ", "a", "r", "e", " ", "a", "n", " ", "e", "x", "p", "e", "r", "t", " ", "i", "n", " ", "\"", "U", "s", "e", "r", " ", "P", "e", "r", "s", "o", "n", "a", " ", "G", "e", "n", "e", "r", "a", "t", "i", "o", "n", " ", "f", "o", "r", " ", "G", "r", "o", "u", "p", " ", "D", "i", "n", "i", "n", "g", " ", "D", "i", "s", "c", "u", "s", "s", "i", "o", "n", "s", "\"", ".">>

TestCase(id, case_type, input) == [id |-> id, case_type |-> case_type, input |-> input]

\* test_cases.py: the ordered sequence of {id, case_type, input} records
TEST_CASES ==
  <<TestCase("TC-001", "basic", NutProfile),
    TestCase("TC-002", "empty", EmptyProfile)>>

\* the most models the environment configures
MaxModels == 2

\* line 40 and 49: a model reached over the API
ApiConfig(i) ==
  [friendly_name |-> <<"Ollama-", i>>, model_id |-> <<"api", i>>, is_local_hf |-> FALSE]

\* line 59: a model loaded by transformers
HfConfig(i) ==
  [friendly_name |-> <<"HF-", i>>, model_id |-> <<"hf", i>>, is_local_hf |-> TRUE]

\* line 35 to 60: the API models first, then the local ones
ModelsConfig(a, h) ==
  [i \in 1..(a + h) |-> IF i <= a THEN ApiConfig(i) ELSE HfConfig(i)]

ModelsConfigs ==
  {c \in {ModelsConfig(a, h) : a \in 0..MaxModels, h \in 0..MaxModels} :
     Len(c) <= MaxModels}

Event(what, m, c) == [what |-> what, model_ix |-> m, case_ix |-> c]

\* the call generate(sp, inp) begins, in the next state
GenBegins(sp, inp) ==
  /\ g_pc' = "call"
  /\ system_prompt' = sp
  /\ user_input' = inp
  /\ user_content' = <<>>
  /\ prompt_text' = <<>>
  /\ start_time' = 0
  /\ ttft' = 0
  /\ first_token_received' = FALSE
  /\ collected_chunks' = <<>>
  /\ usage_data' = NoUsage
  /\ chunks_seen' = 0
  /\ response_text' = <<>>
  /\ latency' = 0
  /\ in_tokens' = 0
  /\ g_result' = NoResult
  /\ faults' = {}
  /\ first_elapsed' = -1
  /\ end_elapsed' = -1

\* the call of generate is over and its locals are gone
GenEnds ==
  /\ g_pc' = "idle"
  /\ system_prompt' = <<>>
  /\ user_input' = EmptyProfile
  /\ user_content' = <<>>
  /\ prompt_text' = <<>>
  /\ start_time' = 0
  /\ ttft' = 0
  /\ first_token_received' = FALSE
  /\ collected_chunks' = <<>>
  /\ usage_data' = NoUsage
  /\ chunks_seen' = 0
  /\ response_text' = <<>>
  /\ latency' = 0
  /\ in_tokens' = 0
  /\ g_result' = NoResult
  /\ faults' = {}
  /\ first_elapsed' = -1
  /\ end_elapsed' = -1

\* the call calculate_persona_generation_metrics(inp, text) begins, in the next state
ScoreBegins(inp, text) ==
  /\ input_data' = inp
  /\ output_text' = text
  /\ parsed_output' = PyDict(<<>>)
  /\ scores' = InitialScores
  /\ s_pc' = "schema"

\* the scoring call is over and its locals are gone
ScoreEnds ==
  /\ input_data' = EmptyProfile
  /\ output_text' = <<>>
  /\ parsed_output' = PyDict(<<>>)
  /\ scores' = InitialScores
  /\ s_pc' = "idle"

\* line 62 to 66: no model is configured
NoModels ==
  /\ m_pc = "start"
  /\ models_config = <<>>
  /\ m_pc' = "done"
  /\ events' = Append(events, Event("no_models", 0, 0))
  /\ UNCHANGED <<score_vars, env, gen_vars, models_config, model_ix, case_ix, model,
                 all_results>>

\* line 68 and 70: the loop over the models begins
StartModels ==
  /\ m_pc = "start"
  /\ models_config # <<>>
  /\ all_results' = <<>>
  /\ model_ix' = 1
  /\ m_pc' = "model"
  /\ UNCHANGED <<score_vars, env, gen_vars, models_config, case_ix, model, events>>

\* line 70 to 78 and 83: the adapter of the next model is built
Construct ==
  /\ m_pc = "model"
  /\ model_ix <= Len(models_config)
  /\ model' = Adapter(models_config[model_ix].model_id, models_config[model_ix].is_local_hf)
  /\ case_ix' = 1
  /\ m_pc' = "case"
  /\ events' = Append(events, Event("constructed", model_ix, 0))
  /\ UNCHANGED <<score_vars, env, gen_vars, models_config, model_ix, all_results>>

\* a variant of ConstructRaises that leaves the loop over the models
ConstructRaisesEndsRun ==
  /\ m_pc = "model"
  /\ model_ix <= Len(models_config)
  /\ model' = NoAdapter
  /\ model_ix' = Len(models_config) + 1
  /\ events' = Append(events, Event("construct_failed", model_ix, 0))
  /\ UNCHANGED <<score_vars, env, gen_vars, models_config, m_pc, case_ix, all_results>>

\* line 74 to 81: RealModelInterface(...) raises, and main goes on to the next model
ConstructRaises ==
  /\ m_pc = "model"
  /\ model_ix <= Len(models_config)
  /\ model' = NoAdapter
  /\ model_ix' = model_ix + 1
  /\ events' = Append(events, Event("construct_failed", model_ix, 0))
  /\ UNCHANGED <<score_vars, env, gen_vars, models_config, m_pc, case_ix, all_results>>

\* line 84 to 87: model.generate(SYSTEM_PROMPT, case["input"]) is called
CaseGenerate ==
  /\ m_pc = "case"
  /\ case_ix <= Len(TEST_CASES)
  /\ GenBegins(SYSTEM_PROMPT, TEST_CASES[case_ix].input)
  /\ m_pc' = "generate"
  /\ events' = Append(events, Event("generate", model_ix, case_ix))
  /\ UNCHANGED <<score_vars, env, now, models_config, model_ix, case_ix, model, all_results>>

\* line 90 to 92: generate has returned and the scoring call begins
CaseScore ==
  /\ m_pc = "generate"
  /\ g_pc = "returned"
  /\ ScoreBegins(TEST_CASES[case_ix].input, g_result.text)
  /\ m_pc' = "score"
  /\ UNCHANGED <<env, gen_vars, models_config, model_ix, case_ix, model, all_results, events>>

\* line 95 to 99 and 107: parsed_output if parsed_output else output["text"]
ReportOutput(text) ==
  LET r == JsonLoads(text)
  IN IF r.st = "ok" /\ Truthy(r.v) THEN r.v ELSE PyStrVal(text)

\* line 101 to 114: the record of one case
ResultRecord(case, friendly_name, output, metrics) ==
  [test_id |-> case.id,
   case_type |-> case.case_type,
   model_name |-> friendly_name,
   input |-> case.input,
   output |-> ReportOutput(output.text),
   metrics |-> metrics,
   execution_time |-> output.latency,
   ttft |-> output.ttft,
   input_tokens |-> output.input_tokens,
   output_tokens |-> output.output_tokens]

\* line 94 to 114: the scoring call has returned and the record is appended
CaseRecord ==
  /\ m_pc = "score"
  /\ s_pc = "returned"
  /\ all_results' = Append(all_results,
                           ResultRecord(TEST_CASES[case_ix],
                                        models_config[model_ix].friendly_name,
                                        g_result, scores))
  /\ events' = Append(events, Event("record", model_ix, case_ix))
  /\ case_ix' = case_ix + 1
  /\ m_pc' = "case"
  /\ GenEnds
  /\ ScoreEnds
  /\ UNCHANGED <<env, now, models_config, model_ix, model>>

\* line 87, 115 and 116: generate raised; the error is logged
CaseGenerateRaised ==
  /\ m_pc = "generate"
  /\ g_pc = "raised"
  /\ events' = Append(events, Event("error", model_ix, case_ix))
  /\ case_ix' = case_ix + 1
  /\ m_pc' = "case"
  /\ GenEnds
  /\ UNCHANGED <<score_vars, env, now, models_config, model_ix, model, all_results>>

\* line 90, 115 and 116: the scoring call raised; the error is logged
CaseScoreRaised ==
  /\ m_pc = "score"
  /\ s_pc = "raised"
  /\ events' = Append(events, Event("error", model_ix, case_ix))
  /\ case_ix' = case_ix + 1
  /\ m_pc' = "case"
  /\ GenEnds
  /\ ScoreEnds
  /\ UNCHANGED <<env, now, models_config, model_ix, model, all_results>>

\* a variant of Teardown that goes on to the next model with the adapter still held
TeardownKeepsAdapter ==
  /\ m_pc = "case"
  /\ case_ix > Len(TEST_CASES)
  /\ model_ix' = model_ix + 1
  /\ m_pc' = "model"
  /\ UNCHANGED <<score_vars, env, gen_vars, models_config, case_ix, model, all_results,
                 events>>

\* line 119 to 121: del model and cleanup_gpu_memory()
Teardown ==
  /\ m_pc = "case"
  /\ case_ix > Len(TEST_CASES)
  /\ model' = NoAdapter
  /\ model_ix' = model_ix + 1
  /\ m_pc' = "model"
  /\ events' = Append(events, Event("teardown", model_ix, 0))
  /\ UNCHANGED <<score_vars, env, gen_vars, models_config, case_ix, all_results>>

\* line 123 and 124: generate_evaluation_report(all_results, ...)
Report ==
  /\ m_pc = "model"
  /\ model_ix > Len(models_config)
  /\ m_pc' = "done"
  /\ events' = Append(events, Event("report", 0, 0))
  /\ UNCHANGED <<score_vars, env, gen_vars, models_config, model_ix, case_ix, model,
                 all_results>>

MainStep ==
  \/ NoModels
  \/ StartModels
  \/ Construct
  \/ ConstructRaises
  \/ CaseGenerate
  \/ CaseScore
  \/ CaseRecord
  \/ CaseGenerateRaised
  \/ CaseScoreRaised
  \/ Teardown
  \/ Report

\* main has not begun
MainIdle ==
  /\ models_config = <<>>
  /\ m_pc = "idle"
  /\ model_ix = 0
  /\ case_ix = 0
  /\ model = NoAdapter
  /\ all_results = <<>>
  /\ events = <<>>

----------------------------------------------------------------------------
(* The specifications *)

\* an environment in which no backend is used
NoEnv ==
  [texts |-> {}, pieces |-> {}, usages |-> {}, messages |-> {},
   max_time |-> 0, max_chunks |-> 0, max_tokens |-> 0]

\* the texts of the error envelopes of model_interface.py
ErrorTexts == {_error_response(m).text : m \in {<<>>, <<"C", "o", "n", "n", "e", "c", "t", "i", "o", "n", " ", "e", "r", "r", "o", "r", ".">>}}

ScoreInputs ==
  (WideProfiles \X JsonTexts(FewPersonas))
  \cup (FewProfiles \X JsonTexts(WidePersonas))
  \cup (FewProfiles \X JsonTexts(MistypedPersonas))
  \cup (FewProfiles \X (JsonTexts(PartialObjects) \cup JsonTexts(NonObjects)
                         \cup MalformedTexts \cup LaidOutTexts \cup ErrorTexts))

\* the scoring call alone, on every input of ScoreInputs
InitScore ==
  /\ \E c \in ScoreInputs : ScoreCall(c[1], c[2])
  /\ env = NoEnv
  /\ now = 0
  /\ GenIdle
  /\ MainIdle

SpecScore == InitScore /\ [][ScoreStep]_vars

\* the latest time the clock reaches
MaxTime == 2

\* the most chunks a stream yields
MaxChunks == 2

\* the most tokens the tokenizer counts
MaxTokens == 1

GoodText ==
  <<"{", "\"", "p", "e", "r", "s", "o", "n", "a", "_", "p", "r", "o", "m", "p", "t", "\"", ":", " ", "\"", "n", "e", "v", "e", "r", " ", "n", "u", "t", "\"", ",", " ", "\"", "m", "u", "s", "t", "_", "a", "v", "o", "i", "d", "\"", ":", " ", "[", "\"", "n", "u", "t", "\"", "]", ",", " ", "\"", "p", "r", "e", "f", "e", "r", "r", "e", "d", "\"", ":", " ", "[", "]", ",", " ", "\"", "r", "e", "a", "s", "o", "n", "i", "n", "g", "\"", ":", " ", "\"", "b", "e", "c", "a", "u", "s", "e", "\"", "}">>

\* a fenced answer of 40 characters, as one delta of a stream
FencedPiece ==
  <<"GRAVE", "GRAVE", "GRAVE", "j", "s", "o", "n", "\n", "{", "\"", "p", "e", "r", "s", "o", "n", "a", "_", "p", "r", "o", "m", "p", "t", "\"", ":", " ", "\"", "K", "i", "m", " ", "o", "k", "\"", "}", "\n", "GRAVE", "GRAVE", "GRAVE">>

\* what the pipeline, the server and the tokenizer may do during one call
GenEnv ==
  [texts |-> {GoodText, <<"GRAVE", "GRAVE", "GRAVE", "j", "s", "o", "n", "\n", "{", "}", "\n", "GRAVE", "GRAVE", "GRAVE">>, <<"n", "u", "l", "l">>},
   pieces |-> {<<"GRAVE", "GRAVE", "GRAVE">>, <<"n", "u", "l", "l">>, FencedPiece},
   usages |-> {Usage(7, 3)},
   messages |-> {<<>>, <<"C", "o", "n", "n", "e", "c", "t", "i", "o", "n", " ", "e", "r", "r", "o", "r", ".">>},
   max_time |-> MaxTime,
   max_chunks |-> MaxChunks,
   max_tokens |-> MaxTokens]

\* one call of generate alone, on either backend
InitGen ==
  /\ env = GenEnv
  /\ now = 0
  /\ \E sp \in {<<>>, SYSTEM_PROMPT}, inp \in FewProfiles : GenCall(sp, inp)
  /\ ScoreIdle
  /\ models_config = <<>>
  /\ m_pc = "idle"
  /\ model_ix = 0
  /\ case_ix = 0
  /\ model \in {Adapter(<<"api", 1>>, FALSE), Adapter(<<"hf", 1>>, TRUE)}
  /\ all_results = <<>>
  /\ events = <<>>

SpecGen == InitGen /\ [][GenStep]_vars

\* the most pieces a text given to the sanitizer is made of
MaxPieces == 4

\* the pieces of those texts
CleanPieces == {<<"GRAVE", "GRAVE", "GRAVE">>, <<"GRAVE", "GRAVE", "GRAVE", "j", "s", "o", "n">>, <<"GRAVE">>, <<" ">>, <<"x">>}

CleanTexts == {Flatten(ps) : ps \in SeqsUpTo(CleanPieces, MaxPieces)}

\* the sanitizer alone, on every text of CleanTexts
InitClean ==
  /\ env = NoEnv
  /\ now = 0
  /\ g_pc = "clean"
  /\ system_prompt = <<>>
  /\ user_input = EmptyProfile
  /\ user_content = <<>>
  /\ prompt_text = <<>>
  /\ start_time = 0
  /\ ttft = 0
  /\ first_token_received = FALSE
  /\ collected_chunks = <<>>
  /\ usage_data = NoUsage
  /\ chunks_seen = 0
  /\ response_text \in CleanTexts
  /\ latency = 0
  /\ in_tokens = 0
  /\ g_result = NoResult
  /\ faults = {}
  /\ first_elapsed = -1
  /\ end_elapsed = -1
  /\ ScoreIdle
  /\ MainIdle

SpecClean == InitClean /\ [][CleanStep]_vars

\* what the backends may do during a run of main: the clock may advance once, a
\* stream yields at most one chunk, and the tokenizer counts no token
MainEnv ==
  [texts |-> {GoodText, <<"n", "u", "l", "l">>},
   pieces |-> {GoodText},
   usages |-> {},
   messages |-> {<<"C", "o", "n", "n", "e", "c", "t", "i", "o", "n", " ", "e", "r", "r", "o", "r", ".">>},
   max_time |-> 1,
   max_chunks |-> 1,
   max_tokens |-> 0]

\* a run of main, from the models the environment configures
InitMain ==
  /\ env = MainEnv
  /\ now = 0
  /\ GenIdle
  /\ ScoreIdle
  /\ models_config \in ModelsConfigs
  /\ m_pc = "start"
  /\ model_ix = 0
  /\ case_ix = 0
  /\ model = NoAdapter
  /\ all_results = <<>>
  /\ events = <<>>

NextMain == MainStep \/ GenStep \/ ScoreStep

SpecMain == InitMain /\ [][NextMain]_vars

----------------------------------------------------------------------------
(* The properties of the scoring call, under SpecScore *)

\* what json.loads makes of the text under scoring
Loaded == JsonLoads(output_text)

\* a JSON object that holds the four required keys
HoldsRequiredKeys(v) ==
  v.t = "dict" /\ \A i \in 1..Len(required_keys) : HasKey(v, required_keys[i])

\* r, the outcome of json.loads, is a value in which the required keys are not all present
KeysMissing(r) == r.st = "ok" /\ ~HoldsRequiredKeys(r.v)

\* r is an object with the four keys in which must_avoid or preferred is no list
WrongTypes(r) ==
  /\ r.st = "ok"
  /\ HoldsRequiredKeys(r.v)
  /\ ~(IsList(GetKey(r.v, required_keys[2])) /\ IsList(GetKey(r.v, required_keys[3])))

\* the eight base sub-scores of a ScoreCard
BaseScores(sc) ==
  <<sc.json_schema_compliance, sc.field_coverage, sc.classification_accuracy,
    sc.reasoning_depth, sc.discussion_readiness, sc.specificity, sc.consistency,
    sc.extra_text_parsing>>

\* the ScoreCard of a call that changed nothing but json_schema_compliance
DefaultsWith(compliance) ==
  [json_schema_compliance |-> compliance,
   field_coverage |-> Zero,
   classification_accuracy |-> Zero,
   reasoning_depth |-> Zero,
   discussion_readiness |-> Zero,
   specificity |-> Zero,
   consistency |-> One,
   extra_text_parsing |-> One,
   overall_score |-> Zero]

\* C1: for every profile and every output text the scoring call returns a ScoreCard
\* and never raises.  (Refuted: on the text null, for one, it raises a TypeError.)
C1_ScoringNeverRaises == s_pc # "raised"

\* C3, as the specification states it: when the text parses as JSON and the required
\* keys are not all present, the returned ScoreCard has json_schema_compliance 0.5.
C3_MissingKeysGiveHalf ==
  s_pc = "returned" =>
     LET r == Loaded
     IN KeysMissing(r) => scores.json_schema_compliance = Half

\* C3, as the code has it: when the text parses as JSON and the required keys are not
\* all present, a ScoreCard that is returned has json_schema_compliance 0.0 and every
\* other field at its initial default; a JSON object that lacks a key (the error
\* envelope is one) never makes the call raise, and the call returns right after
\* stage (a).
C3_MissingKeysGiveZero ==
  s_pc # "schema" =>
     LET r == Loaded
     IN KeysMissing(r) =>
          /\ s_pc = "returned" => scores = DefaultsWith(Zero)
          /\ r.v.t = "dict" => s_pc = "returned"

\* the error envelope has been scored, and its compliance is 0.0
C3_EnvelopeScoredZero ==
  /\ s_pc = "returned"
  /\ output_text = _error_response(<<"C", "o", "n", "n", "e", "c", "t", "i", "o", "n", " ", "e", "r", "r", "o", "r", ".">>).text
  /\ KeysMissing(Loaded)
  /\ scores.json_schema_compliance = Zero

C5_ParseFailureReturnsDefaults ==
  (s_pc # "schema" /\ Loaded.st = "bad") =>
     /\ s_pc = "returned"
     /\ scores.json_schema_compliance = Zero
     /\ scores.field_coverage = Zero
     /\ scores.classification_accuracy = Zero
     /\ scores.reasoning_depth = Zero
     /\ scores.discussion_readiness = Zero
     /\ scores.specificity = Zero
     /\ scores.consistency = One
     /\ scores.extra_text_parsing = One
     /\ scores.overall_score = Zero

\* a text that is not JSON has been scored
C5_ParseFailureScored ==
  /\ s_pc = "returned"
  /\ output_text = <<"H", "e", "r", "e", " ", "i", "s", " ", "t", "h", "e", " ", "p", "e", "r", "s", "o", "n", "a", ":", " ", "{", "\"", "m", "u", "s", "t", "_", "a", "v", "o", "i", "d", "\"", ":", " ", "[", "]", "}">>
  /\ Loaded.st = "bad"
  /\ scores.consistency = One

\* C6: in every ScoreCard the call returns, each of the eight base sub-scores lies in
\* [0, 1] and overall_score lies in [0, 8/9].
C6_ScoresInRange ==
  s_pc = "returned" =>
     /\ \A i \in 1..8 : RatLe(Zero, BaseScores(scores)[i]) /\ RatLe(BaseScores(scores)[i], One)
     /\ RatLe(Zero, scores.overall_score)
     /\ RatLe(scores.overall_score, Rat(8, 9))

\* a full run has returned a card whose consistency is at the floor: must_avoid and
\* preferred share an entry and two allergies are among the preferred entries
C6_ConsistencyAtFloor ==
  /\ s_pc = "returned"
  /\ scores.json_schema_compliance = One
  /\ scores.consistency = Zero
  /\ SetsIntersect(must_avoid(parsed_output), preferred(parsed_output))
  /\ Len(input_data.allergies) = 2
  /\ \A i \in 1..2 : AnyItemHolds(input_data.allergies[i], preferred(parsed_output)) = "T"

\* C7: when stage (a) gives 1.0, overall_score stays 0.0 until the last stage and the
\* returned overall_score is the sum of the eight sub-scores over nine, never that sum
\* over eight.
C7_OverallIsSumOverNine ==
  (s_pc \notin {"schema", "raised"} /\ scores.json_schema_compliance = One) =>
     LET total == RatSum(BaseScores(scores))
     IN IF s_pc = "returned"
        THEN /\ scores.overall_score = Rat(total[1], total[2] * 9)
             /\ scores.overall_score # Rat(total[1], total[2] * 8)
        ELSE scores.overall_score = Zero

\* a full run has returned with every sub-score but reasoning_depth above 0.0
C7_FullRunReturned ==
  /\ s_pc = "returned"
  /\ scores.json_schema_compliance = One
  /\ scores.specificity # Zero
  /\ scores.discussion_readiness # Zero
  /\ scores.overall_score # Zero

----------------------------------------------------------------------------
(* The properties of generate, under SpecGen *)

\* the standard error envelope, for some message
IsErrorEnvelope(r) == \E msg \in env.messages : r = _error_response(msg)

\* C2: generate never raises to its caller, and an exception at any step of the
\* backend's work ends with the error envelope being returned.  (Refuted: an
\* exception of tokenizer.encode leaves generate, and an exception of the chat
\* template ends in a result that is no envelope.)
C2_ExceptionsEndInEnvelope ==
  /\ g_pc # "raised"
  /\ (g_pc = "returned" /\ faults # {}) => IsErrorEnvelope(g_result)

\* a call on the streaming backend has returned and no step of it raised
ApiReturned == g_pc = "returned" /\ ~model.is_local /\ faults = {}

\* C10, as the specification states it: ttft is the elapsed time to the first delta
\* with content, and when no delta has content it equals the returned latency.
C10_FallbackIsLatency ==
  ApiReturned =>
     /\ first_elapsed >= 0 => g_result.ttft = first_elapsed
     /\ first_elapsed = -1 => g_result.ttft = g_result.latency

\* C10, as the code has it, on a clock that never runs backwards: when the first delta
\* with content came at an elapsed time above zero, ttft is that elapsed time, whatever
\* came before or after it; when no delta had content, or the first one came at an
\* elapsed time of exactly zero, ttft is the elapsed time read at the end of the
\* stream, which is read before the returned latency and is at most that latency.
C10_TtftOfFirstContent ==
  ApiReturned =>
     /\ first_elapsed > 0 => g_result.ttft = first_elapsed
     /\ first_elapsed <= 0 => g_result.ttft = end_elapsed /\ end_elapsed <= g_result.latency
     /\ g_result.ttft <= g_result.latency

\* a stream without content has ended, and the clock moved before the latency was read
C10_FallbackBelowLatency ==
  /\ ApiReturned
  /\ chunks_seen > 0
  /\ first_elapsed = -1
  /\ g_result.ttft = end_elapsed
  /\ g_result.ttft < g_result.latency

----------------------------------------------------------------------------
(* The properties of main, under SpecMain *)

\* an event of the run
Happened(what, m, c) == \E i \in 1..Len(events) : events[i] = Event(what, m, c)

\* the records main appended for model m and case c
RecordsOf(m, c) ==
  {i \in 1..Len(all_results) :
     /\ all_results[i].model_name = models_config[m].friendly_name
     /\ all_results[i].test_id = TEST_CASES[c].id}

\* C8: for every model whose construction succeeded and every test case, the run
\* appends exactly one record, also when generate failed or the output is malformed.
\* (Refuted: when generate or the scoring call raises, main logs the error and
\* appends nothing.)
C8_OneRecordPerCase ==
  m_pc = "done" =>
     \A m \in 1..Len(models_config), c \in 1..Len(TEST_CASES) :
        Happened("constructed", m, 0) => Cardinality(RecordsOf(m, c)) = 1

\* C9: when the construction of a model fails, no record is made and generate is
\* never called for that model, and every model after it is still constructed and,
\* when that succeeds, run on every test case before the report.
C9_ConstructionFailureSkipsOneModel ==
  (m_pc = "done" /\ models_config # <<>>) =>
     /\ events[Len(events)] = Event("report", 0, 0)
     /\ \A m \in 1..Len(models_config) :
          /\ Happened("constructed", m, 0) # Happened("construct_failed", m, 0)
          /\ \A c \in 1..Len(TEST_CASES) :
               /\ Happened("construct_failed", m, 0) =>
                    RecordsOf(m, c) = {} /\ ~Happened("generate", m, c)
               /\ Happened("constructed", m, 0) => Happened("generate", m, c)

\* the first model could not be constructed, and the second was run and has a record
C9_SecondModelEvaluated ==
  /\ m_pc = "done"
  /\ Len(models_config) = 2
  /\ Happened("construct_failed", 1, 0)
  /\ Happened("constructed", 2, 0)
  /\ \A c \in 1..Len(TEST_CASES) : Happened("generate", 2, c)
  /\ RecordsOf(2, 1) # {}
  /\ RecordsOf(1, 1) = {}

----------------------------------------------------------------------------
(* Token accounting of the streaming backend, under SpecGen *)

\* C11: on the streaming backend, when the stream reported usage, input_tokens and
\* output_tokens are the prompt and completion counts of that usage; otherwise
\* input_tokens is the length of system prompt and serialized profile together,
\* integer-divided by 4, and output_tokens is the length of the raw concatenated
\* response text, not of the sanitized text, integer-divided by 4.
C11_TokensFromUsageOrLength ==
  ApiReturned =>
     IF usage_data.present
     THEN /\ usage_data \in env.usages
          /\ g_result.input_tokens = usage_data.prompt_tokens
          /\ g_result.output_tokens = usage_data.completion_tokens
     ELSE /\ g_result.input_tokens =
               (Len(system_prompt) + Len(JsonDumps(ProfileDict(user_input), FALSE))) \div 4
          /\ g_result.output_tokens = Len(Flatten(collected_chunks)) \div 4

\* a stream without usage gave a fenced response of 40 characters, counted as 10 tokens
C11_FortyCharactersTenTokens ==
  /\ ApiReturned
  /\ ~usage_data.present
  /\ Len(response_text) = 40
  /\ g_result.output_tokens = 10
  /\ Len(g_result.text) < 40

----------------------------------------------------------------------------
(* The sanitizer, under SpecClean *)

HasFence(t) == \E i \in 1..Len(t) : Occurs(Fence, t, i)

\* the blocks of t labeled json: <<i, j>> with the opening fence and its label at i and
\* the closing fence, the first one after the label, at j
JsonBlocks(t) ==
  {b \in (1..Len(t)) \X (1..Len(t)) :
     /\ Occurs(FenceJson, t, b[1])
     /\ b[2] >= b[1] + Len(FenceJson)
     /\ Occurs(Fence, t, b[2])
     /\ \A k \in (b[1] + Len(FenceJson))..(b[2] - 1) : ~Occurs(Fence, t, k)}

\* t without spaces at both ends
Trimmed(t) ==
  IF \A i \in 1..Len(t) : t[i] \in Whitespace THEN <<>>
  ELSE LET first == CHOOSE i \in 1..Len(t) :
                      t[i] \notin Whitespace /\ \A k \in 1..(i - 1) : t[k] \in Whitespace
           last == CHOOSE i \in 1..Len(t) :
                     t[i] \notin Whitespace /\ \A k \in (i + 1)..Len(t) : t[k] \in Whitespace
       IN SubSeq(t, first, last)

\* t with its fences taken out, from the left: of a run of backticks the last one or
\* two, which make no fence, stay
RECURSIVE WithoutFences(_)
WithoutFences(t) ==
  IF Len(t) < Len(Fence) THEN t
  ELSE IF SubSeq(t, 1, Len(Fence)) = Fence
       THEN WithoutFences(SubSeq(t, Len(Fence) + 1, Len(t)))
       ELSE <<t[1]>> \o WithoutFences(Tail(t))

\* C12: when the text holds a block labeled json the sanitizer returns the trimmed
\* inner content of the first such block, and otherwise the text with every fence
\* removed and then trimmed; either way the result holds no fence, and the sanitizer
\* returns its own result unchanged.
C12_SanitizerTakesFirstBlock ==
  /\ g_pc = "cleaned" =>
       /\ ~HasFence(g_result.text)
       /\ IF JsonBlocks(response_text) # {}
          THEN \E b \in JsonBlocks(response_text) :
                 /\ \A c \in JsonBlocks(response_text) : b[1] <= c[1]
                 /\ g_result.text =
                      Trimmed(SubSeq(response_text, b[1] + Len(FenceJson), b[2] - 1))
          ELSE g_result.text = Trimmed(WithoutFences(response_text))
  /\ g_pc = "cleaned_again" => g_result.text = response_text

\* a text with two blocks and text around them was sanitized to the inner content of
\* the first
C12_FirstOfTwoBlocks ==
  /\ g_pc = "cleaned"
  /\ Cardinality(JsonBlocks(response_text)) = 2
  /\ g_result.text = <<"x">>

----------------------------------------------------------------------------
(* The order of a run of main, under SpecMain *)

\* the models whose adapter has been constructed and not yet torn down
AliveModels ==
  {m \in 1..Len(models_config) :
     Happened("constructed", m, 0) /\ ~Happened("teardown", m, 0)}

\* C13: the run is sequential and at most one adapter is alive at any time: a model
\* whose construction succeeded is run on every test case in order and then torn
\* down before the construction of the next model is attempted, generate is called
\* for a model only between its construction and its teardown, and a call of
\* generate or of the scoring function is under way only inside the loop over the
\* cases of the one model alive.  (A model whose construction failed has no adapter
\* and is not torn down.)
C13_OneModelAtATime ==
  /\ Cardinality(AliveModels) <= 1
  /\ model.alive <=> AliveModels # {}
  /\ model.alive =>
       /\ AliveModels = {model_ix}
       /\ model = Adapter(models_config[model_ix].model_id, models_config[model_ix].is_local_hf)
  /\ g_pc \notin {"idle", "returned", "raised"} =>
       model.alive /\ m_pc = "generate" /\ s_pc = "idle"
  /\ s_pc # "idle" => model.alive /\ m_pc = "score" /\ g_pc = "returned"
  /\ \A j \in 1..Len(events) :
       LET e == events[j]
           was(what, m, c) == \E i \in 1..(j - 1) : events[i] = Event(what, m, c)
       IN /\ e.what \in {"constructed", "construct_failed"} =>
               \A m \in 1..(e.model_ix - 1) :
                  /\ was("constructed", m, 0) \/ was("construct_failed", m, 0)
                  /\ was("constructed", m, 0) => was("teardown", m, 0)
          /\ e.what = "generate" =>
               /\ was("constructed", e.model_ix, 0)
               /\ ~was("teardown", e.model_ix, 0)
               /\ \A c \in 1..(e.case_ix - 1) : was("generate", e.model_ix, c)
               /\ ~was("generate", e.model_ix, e.case_ix)
          /\ e.what = "teardown" =>
               /\ was("constructed", e.model_ix, 0)
               /\ ~was("teardown", e.model_ix, 0)
               /\ \A c \in 1..Len(TEST_CASES) : was("generate", e.model_ix, c)

\* the second of two models is under generate after the first was run and torn down
C13_SecondModelAfterTeardown ==
  /\ g_pc \notin {"idle", "returned", "raised"}
  /\ model_ix = 2
  /\ case_ix = 2
  /\ Happened("teardown", 1, 0)
  /\ AliveModels = {2}

----------------------------------------------------------------------------
(* The formulas of the stages, under SpecScore *)

\* stage (a) gave 1.0 and the stage that leaves s_pc at one of pcs has run
FullyCompliantAt(pcs) == s_pc \in pcs /\ scores.json_schema_compliance = One

\* the entries of the list stored under key k of the parsed output
EntriesOf(k) == GetKey(parsed_output, k).l

\* the str x is a literal substring of entry e, a str
InEntry(x, e) == e.t = "str" /\ IsSubstr(x, e.s)

\* the positions of the items of xs that are a literal substring of some entry of es
ItemsInEntries(xs, es) ==
  {i \in 1..Len(xs) : \E j \in 1..Len(es) : InEntry(xs[i], es[j])}

\* must_avoid and preferred hold an equal element
SharedEntry ==
  \E i \in 1..Len(EntriesOf(required_keys[2])), j \in 1..Len(EntriesOf(required_keys[3])) :
     EntriesOf(required_keys[2])[i] = EntriesOf(required_keys[3])[j]

\* C14: when stage (a) gives 1.0, consistency is 1.0 less 0.5 if must_avoid and
\* preferred share an element, less 0.5 for every allergy of the profile that is a
\* literal substring of some preferred entry, and not below 0.0; so it is at most
\* 0.5 whenever must_avoid and preferred hold the same string.
C14_ConsistencyPenalties ==
  FullyCompliantAt({"extra_text", "overall", "returned"}) =>
     LET n == (IF SharedEntry THEN 1 ELSE 0)
              + Cardinality(ItemsInEntries(input_data.allergies, EntriesOf(required_keys[3])))
     IN /\ scores.consistency = IF n >= 2 THEN Zero ELSE Rat(2 - n, 2)
        /\ SharedEntry => RatLe(scores.consistency, Half)

\* must_avoid and preferred both hold "peanut", no allergy is involved, and the
\* returned consistency is 0.5
C14_SharedPeanut ==
  /\ FullyCompliantAt({"returned"})
  /\ \E i \in 1..Len(EntriesOf(required_keys[2])) :
        EntriesOf(required_keys[2])[i] = PyStrVal(<<"p", "e", "a", "n", "u", "t">>)
  /\ \E j \in 1..Len(EntriesOf(required_keys[3])) :
        EntriesOf(required_keys[3])[j] = PyStrVal(<<"p", "e", "a", "n", "u", "t">>)
  /\ input_data.allergies = <<>>
  /\ scores.consistency = Half


\* the persona_prompt of the parsed output is a string, as GeneratedPersona has it
PromptIsText == GetKey(parsed_output, required_keys[1]).t = "str"

\* some element of the profile field xs is a literal substring of one of texts
CoveredBy(xs, texts) == \E i \in 1..Len(xs) : \E t \in texts : IsSubstr(xs[i], t)

\* the four profile fields of stage (b), each with the texts it is looked up in:
\* the stringified list or lists it corresponds to, and persona_prompt
CoverageFields ==
  LET pp == GetKey(parsed_output, required_keys[1]).s
      sa == PyStr(GetKey(parsed_output, required_keys[2]))
      sp == PyStr(GetKey(parsed_output, required_keys[3]))
  IN << <<input_data.allergies, {sa, pp}>>,
        <<input_data.preferred_food_categories, {sp, pp}>>,
        <<input_data.preferred_ingredients, {sp, pp}>>,
        <<input_data.extra_text, {sa, sp, pp}>> >>

\* C15: when stage (a) fully succeeds, field_coverage is the number of covered
\* fields over the number of applicable fields, and 1.0 when no field is
\* applicable. A field among allergies, preferred_food_categories,
\* preferred_ingredients and extra_text is applicable when it is not empty; it
\* is covered when one of its elements is a literal substring of the
\* stringified must_avoid (allergies), of the stringified preferred (categories
\* and ingredients), of either of the two (extra_text), or of persona_prompt.
C15_CoverageIsCoveredOverApplicable ==
  (FullyCompliantAt({"classification", "reasoning", "readiness", "specificity",
                     "consistency", "extra_text", "overall", "returned"})
   /\ PromptIsText) =>
     LET f == CoverageFields
         applicable == {i \in 1..Len(f) : f[i][1] # <<>>}
         covered == {i \in applicable : CoveredBy(f[i][1], f[i][2])}
     IN scores.field_coverage =
          IF applicable = {} THEN One
          ELSE Rat(Cardinality(covered), Cardinality(applicable))

\* a returned card of a profile with allergies and no extra_text, of which some
\* applicable field is covered and some is not
C15_PartlyCovered ==
  /\ FullyCompliantAt({"returned"})
  /\ PromptIsText
  /\ input_data.allergies # <<>>
  /\ input_data.extra_text = <<>>
  /\ scores.field_coverage \notin {Zero, One}


\* C16: classification_accuracy is correct/total, and 1.0 when total is 0. total
\* counts every allergy, preferred category and preferred ingredient of the
\* profile; an allergy is correct when it is a literal substring of some single
\* must_avoid entry, a category or an ingredient when it is a literal substring
\* of some single preferred entry. persona_prompt and the other list do not
\* count.
C16_AccuracyIsCorrectOverTotal ==
  FullyCompliantAt({"returned"}) =>
    LET prefs == input_data.preferred_food_categories \o input_data.preferred_ingredients
        total == Len(input_data.allergies) + Len(prefs)
        correct == Cardinality(ItemsInEntries(input_data.allergies, EntriesOf(required_keys[2])))
                   + Cardinality(ItemsInEntries(prefs, EntriesOf(required_keys[3])))
    IN scores.classification_accuracy = IF total = 0 THEN One ELSE Rat(correct, total)

\* a returned card of a profile whose allergy is in persona_prompt and in a
\* preferred entry, in no must_avoid entry, and is not counted as correct
C16_AllergyOnlyInOtherBucket ==
  /\ FullyCompliantAt({"returned"})
  /\ PromptIsText
  /\ \E i \in 1..Len(input_data.allergies) :
        /\ IsSubstr(input_data.allergies[i], GetKey(parsed_output, required_keys[1]).s)
        /\ ItemsInEntries(<<input_data.allergies[i]>>, EntriesOf(required_keys[3])) # {}
        /\ ItemsInEntries(<<input_data.allergies[i]>>, EntriesOf(required_keys[2])) = {}
  /\ Len(input_data.allergies) = 1
  /\ input_data.preferred_ingredients = <<>>
  /\ scores.classification_accuracy = Zero

\* the whitespace-separated tokens of text: its maximal runs without whitespace
TokensOf(text) ==
  {SubSeq(text, p[1], p[2]) :
     p \in {q \in (1..Len(text)) \X (1..Len(text)) :
              /\ q[1] <= q[2]
              /\ \A m \in q[1]..q[2] : text[m] \notin Whitespace
              /\ q[1] = 1 \/ text[q[1] - 1] \in Whitespace
              /\ q[2] = Len(text) \/ text[q[2] + 1] \in Whitespace}}

\* the strong-negative entries of the profile's extra_text
StrongEntries == {i \in 1..Len(input_data.extra_text) : IsStrong(input_data.extra_text[i])}

\* the entries of which some token longer than one character is a literal
\* substring of the stringified must_avoid list
ReflectedEntries ==
  {i \in StrongEntries :
     \E w \in TokensOf(input_data.extra_text[i]) :
        Len(w) > 1 /\ IsSubstr(w, PyStr(GetKey(parsed_output, required_keys[2])))}

\* C17: extra_text_parsing is the number of strong-negative extra_text entries
\* that have a whitespace-separated token longer than one character which is a
\* literal substring of the stringified must_avoid list, over the number of
\* strong-negative entries, and 1.0 when the profile has no strong-negative
\* entry. The entries that are not strong-negative, and preferred, have no part
\* in it.
C17_StrongEntriesReflected ==
  FullyCompliantAt({"overall", "returned"}) =>
    scores.extra_text_parsing =
      IF StrongEntries = {} THEN One
      ELSE Rat(Cardinality(ReflectedEntries), Cardinality(StrongEntries))

\* a returned card of a profile with one strong-negative entry, of which only a
\* token of one character is in the stringified must_avoid, and one entry that
\* is not strong-negative: the score is 0.0
C17_OneCharacterTokenIgnored ==
  /\ FullyCompliantAt({"returned"})
  /\ Cardinality(StrongEntries) = 1
  /\ Len(input_data.extra_text) = 2
  /\ \E i \in StrongEntries : \E w \in TokensOf(input_data.extra_text[i]) :
        Len(w) = 1 /\ IsSubstr(w, PyStr(GetKey(parsed_output, required_keys[2])))
  /\ scores.extra_text_parsing = Zero

\* persona_prompt holds one of words as a literal substring
PromptHas(words) ==
  \E i \in 1..Len(words) : IsSubstr(words[i], GetKey(parsed_output, required_keys[1]).s)

\* the three terms of stage (e), in tenths
ReadinessTenths ==
  (IF PromptHas(role_words) THEN 3 ELSE 0)
  + (IF \/ EntriesOf(required_keys[2]) # <<>> /\ PromptHas(refusal_words)
        \/ EntriesOf(required_keys[2]) = <<>> THEN 3 ELSE 0)
  + (IF \/ EntriesOf(required_keys[3]) # <<>> /\ PromptHas(negotiation_words)
        \/ EntriesOf(required_keys[3]) = <<>> THEN 4 ELSE 0)

\* C18: discussion_readiness is min(1.0, 0.3 for role or discussion-framing
\* language in persona_prompt + 0.3 for a must_avoid that is empty, or not empty
\* with hard-refusal language in persona_prompt + 0.4 for a preferred that is
\* empty, or not empty with negotiation language in persona_prompt). It is at
\* least 0.7 when must_avoid and preferred are both empty, and a must_avoid that
\* is not empty earns none of the middle 0.3 without refusal language.
C18_ReadinessIsCappedSum ==
  (FullyCompliantAt({"specificity", "consistency", "extra_text", "overall", "returned"})
   /\ PromptIsText) =>
     /\ scores.discussion_readiness = RatMin(Rat(ReadinessTenths, 10), One)
     /\ (EntriesOf(required_keys[2]) = <<>> /\ EntriesOf(required_keys[3]) = <<>>)
          => RatLe(Rat(7, 10), scores.discussion_readiness)
     /\ (EntriesOf(required_keys[2]) # <<>> /\ ~PromptHas(refusal_words))
          => RatLe(scores.discussion_readiness, Rat(7, 10))

\* a returned card of an output with a must_avoid entry and a persona_prompt
\* that has no refusal language, no role language and no negotiation language
\* for its preferred entries: the score is 0.0
C18_NoRefusalLanguage ==
  /\ FullyCompliantAt({"returned"})
  /\ PromptIsText
  /\ GetKey(parsed_output, required_keys[1]).s # <<>>
  /\ EntriesOf(required_keys[2]) # <<>>
  /\ ~PromptHas(refusal_words)
  /\ scores.discussion_readiness = Zero
=============================================================================
